---- MODULE Spec2Model ----
(***************************************************************************)
(* MIC trend analysis and creatinine clearance of AMR-Guard.               *)
(*                                                                         *)
(* src/utils.py estimates creatinine clearance (calculate_crcl, with       *)
(* calculate_ibw, calculate_adjusted_bw and get_renal_dose_category) and   *)
(* projects MIC creep (detect_mic_creep).                                  *)
(* Two functions of the repository analyse a series of MIC readings:       *)
(*   - src/utils.py calculate_mic_trend (the analyze_trend of the design   *)
(*     document), with its helper _assess_mic_risk;                        *)
(*   - src/tools/resistance_tools.py calculate_mic_trend, the tool the UI  *)
(*     calls.                                                              *)
(* Both are modelled here over exact rational arithmetic: a MIC value is a *)
(* whole number of mg/L, a ratio is a pair num/den, float("inf") is the    *)
(* pair 1/0, and round(x, d) is round-half-even to d decimals.             *)
(* A Python dict is a TLA+ record whose DOMAIN is the set of keys present; *)
(* an Optional value is the empty tuple (None) or a one-element tuple.     *)
(***************************************************************************)
EXTENDS Integers, Sequences, FiniteSets, TLC

VARIABLES
    mic_values,              \* the readings list the caller holds, in the caller's order
    susceptible_breakpoint,  \* argument of the last call (None when not passed)
    resistant_breakpoint,    \* argument of the last call (None when not passed)
    current_mic,             \* argument of the last call of the tool (None when not passed)
    pc,                      \* "idle", or the function that returned: "utils" / "tools"
    result,                  \* the dict the last call returned
    crcl_call,               \* arguments of the last calculate_crcl call (None before it)
    weight,                  \* the local weight of that call (None when it raised)
    crcl,                    \* argument of the last get_renal_dose_category call
    procs,                   \* concurrent callers: the frame of each one's call
    heap,                    \* the objects allocated by the calls, by address
    calls,                   \* the calls of the pure functions made so far, with what they returned
    state,                   \* the InfectionState dict of the pipeline run
    trace,                   \* the graph nodes run (or the inference attempts made), in order
    module_globals           \* the module-level names holding the lazily built singletons

trend_vars == <<mic_values, susceptible_breakpoint, resistant_breakpoint, current_mic>>
renal_vars == <<crcl_call, weight, crcl>>
conc_vars == <<procs, heap>>
app_vars == <<calls, state, trace, module_globals>>
vars == <<trend_vars, pc, result, renal_vars, conc_vars, app_vars>>

----------------------------------------------------------------------------
(* Bounds of the model *)

MaxLen == 3
MaxMic == 4
MaxBpExp == 2

RECURSIVE Pow(_, _)
Pow(b, e) == IF e = 0 THEN 1 ELSE b * Pow(b, e - 1)

\* MIC values of the readings: 0..MaxMic mg/L and the next doubling dilution
MicValues == (0 .. MaxMic) \cup {2 * MaxMic}
\* date keys of the readings: an earlier and a later one
DateKeys == {0, 1}
BpValues == {Pow(4, k) : k \in 0 .. MaxBpExp}

\* MIC values one unit apart at a high concentration, next to low ones
CloseBase == 1000
CloseValues == {1, 2, CloseBase, CloseBase + 1}
CloseLens == {2, 3}
CloseReadings == UNION {[1 .. n -> [date : DateKeys, mic_value : CloseValues]] : n \in CloseLens}

Reading == [date : DateKeys, mic_value : MicValues]
Readings == UNION {[1 .. n -> Reading] : n \in 0 .. MaxLen}

----------------------------------------------------------------------------
(* Optional values and rationals *)

None == <<>>
Some(v) == <<v>>
IsSome(o) == o # None
Val(o) == o[1]

OptBp == {None} \cup {Some(v) : v \in BpValues}
OptMic == {None} \cup {Some(v) : v \in MicValues}

Frac(n, d) == [num |-> n, den |-> d]
Inf == Frac(1, 0)
IsInf(f) == f.den = 0

\* f >= k for a whole number k
FracGE(f, k) == IF IsInf(f) THEN TRUE ELSE f.num >= k * f.den
\* f > a/b and f < a/b, for b > 0
FracGT(f, a, b) == IF IsInf(f) THEN TRUE ELSE f.num * b > a * f.den
FracLT(f, a, b) == IF IsInf(f) THEN FALSE ELSE f.num * b < a * f.den

\* sign of p/q - r/s for p, r >= 0 and q, s > 0, by continued fractions
\* (the products p*s and r*q may exceed the integer range)
RECURSIVE CmpFrac(_, _, _, _)
CmpFrac(p, q, r, s) ==
    LET ip == p \div q
        ir == r \div s
        pr == p % q
        rr == r % s
    IN  IF ip < ir THEN -1
        ELSE IF ip > ir THEN 1
        ELSE IF pr = 0 /\ rr = 0 THEN 0
        ELSE IF pr = 0 THEN -1
        ELSE IF rr = 0 THEN 1
        ELSE CmpFrac(s, rr, q, pr)

\* round(num/den, d) with scale = 10^d, as a whole number of 1/scale: half to even
RoundHalfEven(num, den, scale) ==
    LET q == (num * scale) \div den
        r == (num * scale) % den
    IN  IF 2 * r < den THEN q
        ELSE IF 2 * r > den THEN q + 1
        ELSE IF q % 2 = 0 THEN q ELSE q + 1

\* round(f, d): a rational with denominator scale = 10^d; round(inf, d) is inf
Round(f, scale) ==
    IF IsInf(f) THEN Inf ELSE Frac(RoundHalfEven(f.num, f.den, scale), scale)

\* sign of ((2t - 1) / (2 scale))^k - num/den: whether t - 1/2 lies below, on or
\* above scale * (num/den)^(1/k)
HalfCmp(t, k, num, den, scale) ==
    IF t = 0 THEN -1
    ELSE LET a == 2 * t - 1
             A == 2 * scale
         IN  CmpFrac(a, A, Pow(A, k - 1) * num, Pow(a, k - 1) * den)

\* the largest t in lo .. hi-1 with t - 1/2 <= scale * (num/den)^(1/k)
RECURSIVE RootSearch(_, _, _, _, _, _)
RootSearch(lo, hi, k, num, den, scale) ==
    IF hi - lo <= 1 THEN lo
    ELSE LET mid == (lo + hi) \div 2
         IN  IF HalfCmp(mid, k, num, den, scale) <= 0
             THEN RootSearch(mid, hi, k, num, den, scale)
             ELSE RootSearch(lo, mid, k, num, den, scale)

\* RootRound cutting the root off after d decimals instead of rounding it
RootRound_Truncated(num, den, k, scale) ==
    LET hi == scale * ((num \div den) + 1) + 1
        t == RootSearch(0, hi, k, num, den, scale)
    IN  IF t > 0 /\ CmpFrac(t, scale, Pow(scale, k - 1) * num, Pow(t, k - 1) * den) > 0
        THEN t - 1 ELSE t

\* round((num/den) ** (1/k), d) with scale = 10^d, as a whole number of 1/scale
RootRound(num, den, k, scale) ==
    LET hi == scale * ((num \div den) + 1) + 1
        t == RootSearch(0, hi, k, num, den, scale)
    IN  IF HalfCmp(t, k, num, den, scale) = 0 /\ t % 2 = 1 THEN t - 1 ELSE t

----------------------------------------------------------------------------
(* src/utils.py *)

\* mics = [float(v["mic_value"]) for v in mic_values]
Mics(values) == [i \in 1 .. Len(values) |-> values[i].mic_value]

\* sum(...) of a list of numbers
RECURSIVE Sum(_)
Sum(s) == IF s = <<>> THEN 0 ELSE Head(s) + Sum(Tail(s))

\* The regression slope of calculate_mic_trend (n >= 3), as the rational
\* numerator / denominator. With x_mean = (n-1)/2 and y_mean = sum(mics)/n:
\*   2n * numerator   = sum (2i - (n-1)) * (n * mics[i] - sum(mics))
\*    4 * denominator = sum (2i - (n-1))^2
\* (i is the 0-based index; mics is 1-based here).
Slope(mics) ==
    LET n == Len(mics)
        total == Sum(mics)
        dx(i) == 2 * (i - 1) - (n - 1)
        numerator2n == Sum([i \in 1 .. n |-> dx(i) * (n * mics[i] - total)])
        denominator4 == Sum([i \in 1 .. n |-> dx(i) * dx(i)])
    IN  IF denominator4 # 0
        THEN Frac(2 * numerator2n, n * denominator4)
        ELSE Frac(0, 1)

\* SlopeTrend with both cutoffs inclusive (slope >= 0.5, slope <= -0.5)
SlopeTrend_Inclusive(mics) ==
    LET slope == Slope(mics)
    IN  IF 2 * slope.num >= slope.den THEN "increasing"
        ELSE IF 2 * slope.num <= -slope.den THEN "decreasing"
        ELSE "stable"

SlopeTrend(mics) ==
    LET slope == Slope(mics)
    IN  IF 2 * slope.num > slope.den THEN "increasing"
        ELSE IF 2 * slope.num < -slope.den THEN "decreasing"
        ELSE "stable"

\* PairTrend deciding by the difference of the two readings (their slope)
PairTrend_ByDifference(baseline, current) ==
    IF 2 * (current - baseline) > 1 THEN "increasing"
    ELSE IF 2 * (current - baseline) < -1 THEN "decreasing"
    ELSE "stable"

\* the two-reading branch: current > baseline * 1.5, current < baseline * 0.67
PairTrend(baseline, current) ==
    IF 2 * current > 3 * baseline THEN "increasing"
    ELSE IF 100 * current < 67 * baseline THEN "decreasing"
    ELSE "stable"

\* BreakpointRisk with the two margin bands exchanged
BreakpointRisk_BandsExchanged(current, trend, s, r) ==
    LET margin == IF current > 0 THEN Frac(s, current) ELSE Inf
    IN  IF current > r
           THEN <<"CRITICAL", "exceeds resistant breakpoint">>
        ELSE IF current > s
           THEN <<"HIGH", "exceeds susceptible breakpoint">>
        ELSE IF ~FracGE(margin, 2)
           THEN IF trend = "increasing"
                THEN <<"MODERATE", "rising with margin to breakpoint">>
                ELSE <<"LOW", "adequate margin">>
        ELSE IF ~FracGE(margin, 4)
           THEN IF trend = "increasing"
                THEN <<"HIGH", "approaching breakpoint with increasing trend">>
                ELSE <<"MODERATE", "close to breakpoint">>
        ELSE <<"LOW", "well below breakpoint">>

\* BreakpointRisk with the margin cutoffs inclusive (margin <= 2, margin <= 4)
BreakpointRisk_MarginInclusive(current, trend, s, r) ==
    LET margin == IF current > 0 THEN Frac(s, current) ELSE Inf
    IN  IF current > r
           THEN <<"CRITICAL", "exceeds resistant breakpoint">>
        ELSE IF current > s
           THEN <<"HIGH", "exceeds susceptible breakpoint">>
        ELSE IF ~FracGT(margin, 2, 1)
           THEN IF trend = "increasing"
                THEN <<"HIGH", "approaching breakpoint with increasing trend">>
                ELSE <<"MODERATE", "close to breakpoint">>
        ELSE IF ~FracGT(margin, 4, 1)
           THEN IF trend = "increasing"
                THEN <<"MODERATE", "rising with margin to breakpoint">>
                ELSE <<"LOW", "stable with adequate margin to breakpoint">>
        ELSE <<"LOW", "well below breakpoint">>

\* the breakpoint-aware path of _assess_mic_risk (both breakpoints given)
BreakpointRisk(current, trend, s, r) ==
    LET margin == IF current > 0 THEN Frac(s, current) ELSE Inf
    IN  IF current > r
           THEN <<"CRITICAL", "exceeds resistant breakpoint">>
        ELSE IF current > s
           THEN <<"HIGH", "exceeds susceptible breakpoint">>
        ELSE IF ~FracGE(margin, 2)
           THEN IF trend = "increasing"
                THEN <<"HIGH", "approaching breakpoint with increasing trend">>
                ELSE <<"MODERATE", "close to breakpoint">>
        ELSE IF ~FracGE(margin, 4)
           THEN IF trend = "increasing"
                THEN <<"MODERATE", "rising with margin to breakpoint">>
                ELSE <<"LOW", "stable with adequate margin to breakpoint">>
        ELSE <<"LOW", "well below breakpoint">>

\* RatioRisk with the fold-change cutoffs strict (> 8, > 4, > 2)
RatioRisk_Strict(fold_change, trend) ==
    IF FracGT(fold_change, 8, 1)
       THEN <<"CRITICAL", "urgent review needed">>
    ELSE IF FracGT(fold_change, 4, 1)
       THEN <<"HIGH", "high risk of treatment failure">>
    ELSE IF FracGT(fold_change, 2, 1)
       THEN IF trend = "increasing"
            THEN <<"MODERATE", "enhanced monitoring recommended">>
            ELSE <<"LOW", "increased but trend is not rising">>
    ELSE IF trend = "increasing"
       THEN <<"MODERATE", "upward trend, continue monitoring">>
    ELSE <<"LOW", "stable or decreasing">>

\* the path of _assess_mic_risk without breakpoints: fold change and trend
RatioRisk(fold_change, trend) ==
    IF FracGE(fold_change, 8)
       THEN <<"CRITICAL", "urgent review needed">>
    ELSE IF FracGE(fold_change, 4)
       THEN <<"HIGH", "high risk of treatment failure">>
    ELSE IF FracGE(fold_change, 2)
       THEN IF trend = "increasing"
            THEN <<"MODERATE", "enhanced monitoring recommended">>
            ELSE <<"LOW", "increased but trend is not rising">>
    ELSE IF trend = "increasing"
       THEN <<"MODERATE", "upward trend, continue monitoring">>
    ELSE <<"LOW", "stable or decreasing">>

\* _assess_mic_risk taking the breakpoint path as soon as the susceptible
\* breakpoint is given (a missing resistant breakpoint defaults to it)
assess_mic_risk_SusceptibleOnly(current, baseline, fold_change, trend, s_breakpoint, r_breakpoint) ==
    IF IsSome(s_breakpoint)
    THEN BreakpointRisk(current, trend, Val(s_breakpoint),
                        IF IsSome(r_breakpoint) THEN Val(r_breakpoint) ELSE Val(s_breakpoint))
    ELSE RatioRisk(fold_change, trend)

_assess_mic_risk(current, baseline, fold_change, trend, s_breakpoint, r_breakpoint) ==
    IF IsSome(s_breakpoint) /\ IsSome(r_breakpoint)
    THEN BreakpointRisk(current, trend, Val(s_breakpoint), Val(r_breakpoint))
    ELSE RatioRisk(fold_change, trend)

\* InsufficientData with the numeric fields filled with zeros
InsufficientData_Zeroed ==
    [trend |-> "insufficient_data",
     risk_level |-> "UNKNOWN",
     alert |-> "Need at least 2 MIC values for trend analysis",
     baseline_mic |-> 0,
     current_mic |-> 0,
     ratio |-> Frac(0, 100),
     velocity |-> Frac(0, 1000),
     n_readings |-> 0]

\* the result for fewer than 2 readings
InsufficientData ==
    [trend |-> "insufficient_data",
     risk_level |-> "UNKNOWN",
     alert |-> "Need at least 2 MIC values for trend analysis"]

\* ReadingCount counting the intervals between the readings
ReadingCount_Intervals(mics) == Len(mics) - 1

\* "n_readings": len(mics)
ReadingCount(mics) == Len(mics)

calculate_mic_trend(values, s_breakpoint, r_breakpoint) ==
    IF Len(values) < 2
    THEN InsufficientData
    ELSE LET mics == Mics(values)
             n == Len(mics)
             baseline_mic == mics[1]
             current == mics[n]
             fold_change == IF baseline_mic > 0 THEN Frac(current, baseline_mic) ELSE Inf
             trend == IF n >= 3 THEN SlopeTrend(mics) ELSE PairTrend(baseline_mic, current)
             velocity == IF IsInf(fold_change) THEN Inf
                         ELSE Frac(RootRound(fold_change.num, fold_change.den, n - 1, 1000), 1000)
             risk == _assess_mic_risk(current, baseline_mic, fold_change, trend,
                                      s_breakpoint, r_breakpoint)
         IN  [baseline_mic |-> baseline_mic,
              current_mic |-> current,
              ratio |-> Round(fold_change, 100),
              trend |-> trend,
              velocity |-> velocity,
              risk_level |-> risk[1],
              alert |-> risk[2],
              n_readings |-> ReadingCount(mics)]

\* round(log2(arg) / log2(base), decimals), kept as the expression itself:
\* a logarithm has no exact value in rational arithmetic
LogQuotient(arg, base, decimals) ==
    [log2_of |-> arg, per_log2_of |-> base, decimals |-> decimals]

\* EstimateDue with the current MIC allowed to equal the breakpoint
EstimateDue_AtBreakpoint(trend_analysis, s_bp) ==
    /\ trend_analysis.trend = "increasing"
    /\ FracGT(trend_analysis.velocity, 1, 1)
    /\ IsSome(s_bp)
    /\ Val(s_bp) # 0
    /\ trend_analysis.current_mic <= Val(s_bp)

\* the conditions under which detect_mic_creep adds the estimate:
\* trend == "increasing" and velocity > 1.0, then s_bp and current < s_bp
\* (log_velocity > 0 follows from velocity > 1.0)
EstimateDue(trend_analysis, s_bp) ==
    /\ trend_analysis.trend = "increasing"
    /\ FracGT(trend_analysis.velocity, 1, 1)
    /\ IsSome(s_bp)
    /\ Val(s_bp) # 0
    /\ trend_analysis.current_mic < Val(s_bp)

\* round(doublings_needed / log_velocity, 1), doublings_needed being
\* log2(s_bp / current) if current > 0 else 0
EstimateOf(trend_analysis, s_bp) ==
    LET current == trend_analysis.current_mic
        doublings_of == IF current > 0 THEN Frac(Val(s_bp), current) ELSE Frac(1, 1)
    IN  LogQuotient(doublings_of, trend_analysis.velocity, Some(1))

\* breakpoints is the pair of breakpoints.get("susceptible") and
\* breakpoints.get("resistant")
detect_mic_creep(organism, antibiotic, mic_history, s_bp, r_bp) ==
    LET trend_analysis == calculate_mic_trend(mic_history, s_bp, r_bp)
        context == [organism |-> organism,
                    antibiotic |-> antibiotic,
                    breakpoint_susceptible |-> s_bp,
                    breakpoint_resistant |-> r_bp]
    IN  IF EstimateDue(trend_analysis, s_bp)
        THEN trend_analysis @@ context
               @@ [estimated_readings_to_resistance |-> EstimateOf(trend_analysis, s_bp)]
        ELSE trend_analysis @@ context

Organisms == {"Escherichia coli"}
Antibiotics == {"Ciprofloxacin"}

----------------------------------------------------------------------------
(* src/utils.py: creatinine clearance *)

\* Weights are whole tenths of a kg, serum creatinine whole tenths of a
\* mg/dL, ages whole years, heights whole cm; a returned clearance or weight
\* is a rational with denominator 10 (round(x, 1)).

Max(a, b) == IF a >= b THEN a ELSE b

\* the two checks of calculate_crcl: the message of the ValueError raised, or None
InvalidInput_AgeUnchecked(age_years, weight_kg, serum_creatinine_mg_dl) ==
    IF serum_creatinine_mg_dl <= 0 THEN Some("Serum creatinine must be positive")
    ELSE IF weight_kg <= 0 THEN Some("Age and weight must be positive")
    ELSE None

InvalidInput(age_years, weight_kg, serum_creatinine_mg_dl) ==
    IF serum_creatinine_mg_dl <= 0 THEN Some("Serum creatinine must be positive")
    ELSE IF age_years <= 0 \/ weight_kg <= 0 THEN Some("Age and weight must be positive")
    ELSE None

\* calculate_ibw, in tenths of a kg. height_over_60 = max(0, height_cm/2.54 - 60)
\* is max(0, 50 * height_cm - 7620) / 127 inches.
calculate_ibw(height_cm, sex) ==
    LET over127 == Max(0, 50 * height_cm - 7620)
        base == IF sex = "male" THEN 500 ELSE 455
    IN  RoundHalfEven(127 * base + 23 * over127, 127, 1)

\* calculate_adjusted_bw, in tenths of a kg: round(ibw + 0.4 * (actual - ibw), 1)
calculate_adjusted_bw(ibw, actual_weight) ==
    RoundHalfEven(6 * ibw + 4 * actual_weight, 10, 1)

Obese_Inclusive(weight_kg, ibw) == 10 * weight_kg >= 13 * ibw

\* weight_kg > weight * 1.3
Obese(weight_kg, ibw) == 10 * weight_kg > 13 * ibw

AssumedHeight == Some(170)
\* SelectedWeight taking a height of 170 cm when none is passed
SelectedWeight_HeightAssumed(weight_kg, sex, use_ibw, height_cm) ==
    LET h == IF IsSome(height_cm) /\ Val(height_cm) # 0 THEN height_cm ELSE AssumedHeight
    IN  IF use_ibw
        THEN LET ibw == calculate_ibw(Val(h), sex)
             IN  IF Obese(weight_kg, ibw)
                 THEN calculate_adjusted_bw(ibw, weight_kg)
                 ELSE ibw
        ELSE weight_kg

\* the local weight of calculate_crcl; "use_ibw and height_cm" is false for a
\* height of None and for a height of 0
SelectedWeight(weight_kg, sex, use_ibw, height_cm) ==
    IF use_ibw /\ IsSome(height_cm) /\ Val(height_cm) # 0
    THEN LET ibw == calculate_ibw(Val(height_cm), sex)
         IN  IF Obese(weight_kg, ibw)
             THEN calculate_adjusted_bw(ibw, weight_kg)
             ELSE ibw
    ELSE weight_kg

SexFactor_Always(sex) == 85

\* crcl *= 0.85 for sex == "female", in hundredths
SexFactor(sex) == IF sex = "female" THEN 85 ELSE 100

\* round(crcl, 1) for the selected weight w:
\* crcl = ((140 - age) * w) / (72 * scr), times 0.85 for a female
CrclFromWeight(age_years, w, serum_creatinine_mg_dl, sex) ==
    LET num == (140 - age_years) * w * SexFactor(sex)
        den == 72 * serum_creatinine_mg_dl * 100
    IN  Frac(RoundHalfEven(num, den, 10), 10)

\* calculate_crcl returning max(0, crcl)
calculate_crcl_Clamped(age_years, weight_kg, serum_creatinine_mg_dl, sex, use_ibw, height_cm) ==
    LET invalid == InvalidInput(age_years, weight_kg, serum_creatinine_mg_dl)
        w == SelectedWeight(weight_kg, sex, use_ibw, height_cm)
        c == CrclFromWeight(age_years, w, serum_creatinine_mg_dl, sex)
    IN  IF IsSome(invalid)
        THEN [raised |-> "ValueError", message |-> Val(invalid)]
        ELSE [returned |-> Frac(Max(0, c.num), 10)]

\* calculate_crcl: a ValueError, or round(crcl, 1) with
\* crcl = ((140 - age) * weight) / (72 * scr), times 0.85 for a female
calculate_crcl(age_years, weight_kg, serum_creatinine_mg_dl, sex, use_ibw, height_cm) ==
    LET invalid == InvalidInput(age_years, weight_kg, serum_creatinine_mg_dl)
        w == SelectedWeight(weight_kg, sex, use_ibw, height_cm)
    IN  IF IsSome(invalid)
        THEN [raised |-> "ValueError", message |-> Val(invalid)]
        ELSE [returned |-> CrclFromWeight(age_years, w, serum_creatinine_mg_dl, sex)]

get_renal_dose_category_Exclusive(c) ==
    IF FracGT(c, 90, 1) THEN "normal"
    ELSE IF FracGT(c, 60, 1) THEN "mild_impairment"
    ELSE IF FracGT(c, 30, 1) THEN "moderate_impairment"
    ELSE IF FracGT(c, 15, 1) THEN "severe_impairment"
    ELSE "esrd"

get_renal_dose_category(c) ==
    IF FracGE(c, 90) THEN "normal"
    ELSE IF FracGE(c, 60) THEN "mild_impairment"
    ELSE IF FracGE(c, 30) THEN "moderate_impairment"
    ELSE IF FracGE(c, 15) THEN "severe_impairment"
    ELSE "esrd"

\* the inputs of the calls
Ages == {-1, 0, 1, 65, 139, 140, 141}
WeightsKg == {-10, 0, 30, 650, 700, 856, 857, 1200}
SerumCreatinines == {-1, 0, 8, 10, 12, 30}
Sexes == {"male", "female"}
HeightsCm == {None, Some(0), Some(150), Some(170), Some(185)}
CrclArgs == [age_years : Ages, weight_kg : WeightsKg,
             serum_creatinine_mg_dl : SerumCreatinines, sex : Sexes,
             use_ibw : BOOLEAN, height_cm : HeightsCm]
\* clearances passed to get_renal_dose_category directly, in tenths of a mL/min
CrclValues == {Frac(n, 10) : n \in {-12, 0, 149, 150, 151, 299, 300, 301,
                                    599, 600, 601, 899, 900, 901, 1200}}

----------------------------------------------------------------------------
(* src/tools/resistance_tools.py *)

\* insert x behind every element whose date is not greater than x's
RECURSIVE InsertByDate(_, _)
InsertByDate(sorted, x) ==
    IF sorted = <<>> THEN <<x>>
    ELSE IF x.date < Head(sorted).date THEN <<x>> \o sorted
    ELSE <<Head(sorted)>> \o InsertByDate(Tail(sorted), x)

\* sorted(historical_mics, key=lambda x: x.get('date', '0')): a stable sort
RECURSIVE SortByDate(_)
SortByDate(values) ==
    IF values = <<>> THEN <<>>
    ELSE InsertByDate(SortByDate(SubSeq(values, 1, Len(values) - 1)), values[Len(values)])

Truthy(v) == v # 0

\* the direction of the tool, from the ratio alone
ToolTrend(ratio) ==
    IF FracGT(ratio, 3, 2) THEN "INCREASING"
    ELSE IF FracLT(ratio, 67, 100) THEN "DECREASING"
    ELSE "STABLE"

\* ToolRisk with the two thresholds exclusive
ToolRisk_Exclusive(ratio, trend) ==
    IF FracGT(ratio, 4, 1) THEN <<"HIGH", "MIC CREEP DETECTED - Two-step dilution increase">>
    ELSE IF FracGT(ratio, 2, 1) THEN <<"MODERATE", "MIC trending upward (one-step dilution increase)">>
    ELSE IF trend = "INCREASING" THEN <<"LOW", "Slight MIC increase observed">>
    ELSE <<"LOW", "MIC stable or decreasing">>

ToolRisk(ratio, trend) ==
    IF FracGE(ratio, 4) THEN <<"HIGH", "MIC CREEP DETECTED - Two-step dilution increase">>
    ELSE IF FracGE(ratio, 2) THEN <<"MODERATE", "MIC trending upward (one-step dilution increase)">>
    ELSE IF trend = "INCREASING" THEN <<"LOW", "Slight MIC increase observed">>
    ELSE <<"LOW", "MIC stable or decreasing">>

tools_calculate_mic_trend(historical_mics, cur) ==
    IF historical_mics = <<>>
    THEN [risk_level |-> "UNKNOWN",
          message |-> "No historical MIC data available",
          trend |-> None,
          velocity |-> None]
    ELSE LET sorted_mics == SortByDate(historical_mics)
             kept == SelectSeq(Mics(sorted_mics), Truthy)
             values == IF IsSome(cur) /\ Truthy(Val(cur)) THEN Append(kept, Val(cur)) ELSE kept
         IN  IF Len(values) < 2
             THEN [risk_level |-> "UNKNOWN",
                   message |-> "Insufficient MIC history (need at least 2 values)",
                   trend |-> None,
                   velocity |-> None,
                   values |-> values]
             ELSE LET n == Len(values)
                      first == values[1]
                      latest_mic == values[n]
                      \* if baseline_mic == 0: baseline_mic = 0.001
                      ratio == IF first = 0 THEN Frac(latest_mic * 1000, 1)
                               ELSE Frac(latest_mic, first)
                      trend == ToolTrend(ratio)
                      risk == ToolRisk(ratio, trend)
                  IN  [risk_level |-> risk[1],
                       alert |-> risk[2],
                       trend |-> trend,
                       velocity |-> Frac(RootRound(ratio.num, ratio.den, n - 1, 100), 100),
                       ratio |-> Round(ratio, 100),
                       baseline_mic |-> IF first = 0 THEN Frac(1, 1000) ELSE first,
                       current_mic |-> latest_mic,
                       data_points |-> n,
                       values |-> values]

----------------------------------------------------------------------------
(* The state machine: a caller holding a readings list calls one function *)

Init ==
    /\ mic_values \in Readings
    /\ susceptible_breakpoint = None
    /\ resistant_breakpoint = None
    /\ current_mic = None
    /\ pc = "idle"
    /\ result = [status |-> "not called"]
    /\ crcl_call = None
    /\ weight = None
    /\ crcl = None
    /\ procs = <<>>
    /\ heap = <<>>
    /\ calls = <<>>
    /\ state = <<>>
    /\ trace = <<>>
    /\ module_globals = <<>>

CallUtilsTrend ==
    /\ pc = "idle"
    /\ \E s \in OptBp, r \in OptBp :
         /\ susceptible_breakpoint' = s
         /\ resistant_breakpoint' = r
         /\ result' = calculate_mic_trend(mic_values, s, r)
    /\ pc' = "utils"
    /\ UNCHANGED <<mic_values, current_mic, renal_vars, conc_vars, app_vars>>

CallToolsTrend ==
    /\ pc = "idle"
    /\ \E cur \in OptMic :
         /\ current_mic' = cur
         /\ result' = tools_calculate_mic_trend(mic_values, cur)
    /\ pc' = "tools"
    /\ UNCHANGED <<mic_values, susceptible_breakpoint, resistant_breakpoint, renal_vars, conc_vars, app_vars>>

Next ==
    \/ CallUtilsTrend
    \/ CallToolsTrend

Spec == Init /\ [][Next]_vars

\* readings taken at high concentrations
InitClose ==
    /\ mic_values \in CloseReadings
    /\ susceptible_breakpoint = None
    /\ resistant_breakpoint = None
    /\ current_mic = None
    /\ pc = "idle"
    /\ result = [status |-> "not called"]
    /\ crcl_call = None
    /\ weight = None
    /\ crcl = None
    /\ procs = <<>>
    /\ heap = <<>>
    /\ calls = <<>>
    /\ state = <<>>
    /\ trace = <<>>
    /\ module_globals = <<>>

NextClose == CallUtilsTrend

SpecClose == InitClose /\ [][NextClose]_vars

\* a caller holding a readings list calls detect_mic_creep
CallDetectMicCreep ==
    /\ pc = "idle"
    /\ \E s \in OptBp, r \in OptBp, organism \in Organisms, antibiotic \in Antibiotics :
         /\ susceptible_breakpoint' = s
         /\ resistant_breakpoint' = r
         /\ result' = detect_mic_creep(organism, antibiotic, mic_values, s, r)
    /\ pc' = "creep"
    /\ UNCHANGED <<mic_values, current_mic, renal_vars, conc_vars, app_vars>>

NextCreep == CallDetectMicCreep

SpecCreep == Init /\ [][NextCreep]_vars

CrclOf(a) ==
    calculate_crcl(a.age_years, a.weight_kg, a.serum_creatinine_mg_dl,
                   a.sex, a.use_ibw, a.height_cm)

\* a caller calls calculate_crcl
CallCrcl ==
    /\ pc = "idle"
    /\ \E a \in CrclArgs :
         /\ crcl_call' = Some(a)
         /\ result' = CrclOf(a)
         /\ weight' = IF "raised" \in DOMAIN CrclOf(a) THEN None
                      ELSE Some(Frac(SelectedWeight(a.weight_kg, a.sex, a.use_ibw, a.height_cm), 10))
    /\ pc' = "crcl"
    /\ UNCHANGED <<trend_vars, crcl, conc_vars, app_vars>>

\* the caller passes the clearance it got, when not 0, to get_renal_dose_category
ClassifyResult ==
    /\ pc = "crcl"
    /\ "returned" \in DOMAIN result
    /\ result.returned.num # 0
    /\ crcl' = Some(result.returned)
    /\ result' = [category |-> get_renal_dose_category(result.returned)]
    /\ pc' = "category"
    /\ UNCHANGED <<trend_vars, crcl_call, weight, conc_vars, app_vars>>

\* a caller passes any clearance to get_renal_dose_category
ClassifyAny ==
    /\ pc = "idle"
    /\ \E c \in CrclValues :
         /\ crcl' = Some(c)
         /\ result' = [category |-> get_renal_dose_category(c)]
    /\ pc' = "category"
    /\ UNCHANGED <<trend_vars, crcl_call, weight, conc_vars, app_vars>>

InitRenal ==
    /\ mic_values = <<>>
    /\ susceptible_breakpoint = None
    /\ resistant_breakpoint = None
    /\ current_mic = None
    /\ pc = "idle"
    /\ result = [status |-> "not called"]
    /\ crcl_call = None
    /\ weight = None
    /\ crcl = None
    /\ procs = <<>>
    /\ heap = <<>>
    /\ calls = <<>>
    /\ state = <<>>
    /\ trace = <<>>
    /\ module_globals = <<>>

NextRenal ==
    \/ CallCrcl
    \/ ClassifyResult
    \/ ClassifyAny

SpecRenal == InitRenal /\ [][NextRenal]_vars

----------------------------------------------------------------------------
(* Concurrent callers of src/utils.py *)

\* Each caller makes one call; a call runs in steps that other callers'
\* steps interleave with. A dict lives in the heap and is known by its
\* address; the readings list mic_values is one list object every caller
\* passes. A frame holds the call's job, its position, its locals, the
\* list as it was passed, and what it returned.

NProc == 3
Procs == 1 .. NProc

ConcReading(m) == [date |-> 0, mic_value |-> m]
ConcLists == {<<ConcReading(1)>>, <<ConcReading(1), ConcReading(8)>>}
ConcOrganisms == {"Escherichia coli", "Klebsiella pneumoniae"}
ConcBreakpoint == Some(16)

CreepJobs == {[kind |-> "creep", organism |-> o, antibiotic |-> "Ciprofloxacin",
               s |-> ConcBreakpoint, r |-> ConcBreakpoint] : o \in ConcOrganisms}
TrendJobs == {[kind |-> "trend", s |-> ConcBreakpoint, r |-> ConcBreakpoint]}
CrclJobs == {[kind |-> "crcl", args |-> a] :
               a \in {[age_years |-> y, weight_kg |-> 857, serum_creatinine_mg_dl |-> 12,
                       sex |-> "male", use_ibw |-> TRUE, height_cm |-> Some(170)] : y \in {0, 65}}}
CategoryJobs == {[kind |-> "category", crcl |-> Frac(900, 10)]}

IdleFrame == [pc |-> "idle", job |-> None, ref |-> None, weight |-> None,
              passed |-> None, ret |-> None]

\* a dict literal evaluated while another dict with the same items exists
\* gives that dict instead of a new one
Alloc_Cached(h, d) ==
    IF \E i \in 1 .. Len(h) : h[i] = d
    THEN [heap |-> h, addr |-> CHOOSE i \in 1 .. Len(h) : h[i] = d]
    ELSE [heap |-> Append(h, d), addr |-> Len(h) + 1]

\* one module-level dict, updated in place by every dict literal
Alloc_Reused(h, d) ==
    IF h # <<>>
    THEN [heap |-> [h EXCEPT ![1] = d @@ @], addr |-> 1]
    ELSE [heap |-> Append(h, d), addr |-> Len(h) + 1]

\* a dict literal: a new dict at a new address
Alloc(h, d) == [heap |-> Append(h, d), addr |-> Len(h) + 1]

\* d[k] = v
SetItem(d, k, v) == [x \in DOMAIN d \cup {k} |-> IF x = k THEN v ELSE d[x]]

Frame(q) == procs[q]
Step(q, f) == procs' = [procs EXCEPT ![q] = f]

\* detect_mic_creep up to the return of its call of calculate_mic_trend
CreepCall(q) ==
    /\ Frame(q).pc = "idle"
    /\ \E job \in CreepJobs :
         LET a == Alloc(heap, calculate_mic_trend(mic_values, job.s, job.r))
         IN  /\ heap' = a.heap
             /\ Step(q, [Frame(q) EXCEPT !.pc = "c_org", !.job = Some(job),
                                         !.ref = Some(a.addr), !.passed = Some(mic_values)])
    /\ UNCHANGED <<trend_vars, pc, result, renal_vars, app_vars>>

\* the dict at address ref becomes d
Store(ref, d) == heap' = [heap EXCEPT ![ref] = d]

\* trend_analysis["organism"] = organism
CreepSetOrganism(q) ==
    /\ Frame(q).pc = "c_org"
    /\ Store(Val(Frame(q).ref),
             SetItem(heap[Val(Frame(q).ref)], "organism", Val(Frame(q).job).organism))
    /\ Step(q, [Frame(q) EXCEPT !.pc = "c_abx"])
    /\ UNCHANGED <<trend_vars, pc, result, renal_vars, app_vars>>

\* trend_analysis["antibiotic"] = antibiotic
CreepSetAntibiotic(q) ==
    /\ Frame(q).pc = "c_abx"
    /\ Store(Val(Frame(q).ref),
             SetItem(heap[Val(Frame(q).ref)], "antibiotic", Val(Frame(q).job).antibiotic))
    /\ Step(q, [Frame(q) EXCEPT !.pc = "c_bp"])
    /\ UNCHANGED <<trend_vars, pc, result, renal_vars, app_vars>>

\* the two breakpoints of the call, written one after the other
CreepSetBreakpoints(q) ==
    /\ Frame(q).pc = "c_bp"
    /\ Store(Val(Frame(q).ref),
             SetItem(SetItem(heap[Val(Frame(q).ref)],
                             "breakpoint_susceptible", Val(Frame(q).job).s),
                     "breakpoint_resistant", Val(Frame(q).job).r))
    /\ Step(q, [Frame(q) EXCEPT !.pc = "c_est"])
    /\ UNCHANGED <<trend_vars, pc, result, renal_vars, app_vars>>

\* the estimate, read from and written to trend_analysis, and the return
CreepEstimate(q) ==
    /\ Frame(q).pc = "c_est"
    /\ LET ref == Val(Frame(q).ref)
           trend_analysis == heap[ref]
           s_bp == Val(Frame(q).job).s
           after == IF EstimateDue(trend_analysis, s_bp)
                    THEN SetItem(trend_analysis, "estimated_readings_to_resistance",
                                 EstimateOf(trend_analysis, s_bp))
                    ELSE trend_analysis
       IN  /\ Store(ref, after)
           /\ Step(q, [Frame(q) EXCEPT !.pc = "done", !.ret = Some(after)])
    /\ UNCHANGED <<trend_vars, pc, result, renal_vars, app_vars>>

\* a call of calculate_mic_trend
TrendCall(q) ==
    /\ Frame(q).pc = "idle"
    /\ \E job \in TrendJobs :
         LET d == calculate_mic_trend(mic_values, job.s, job.r)
             a == Alloc(heap, d)
         IN  /\ heap' = a.heap
             /\ Step(q, [Frame(q) EXCEPT !.pc = "done", !.job = Some(job),
                                         !.ref = Some(a.addr), !.passed = Some(mic_values),
                                         !.ret = Some(a.heap[a.addr])])
    /\ UNCHANGED <<trend_vars, pc, result, renal_vars, app_vars>>

\* calculate_crcl: the two checks
CrclCheck(q) ==
    /\ Frame(q).pc = "idle"
    /\ \E job \in CrclJobs :
         LET invalid == InvalidInput(job.args.age_years, job.args.weight_kg,
                                     job.args.serum_creatinine_mg_dl)
         IN  IF IsSome(invalid)
             THEN Step(q, [Frame(q) EXCEPT !.pc = "done", !.job = Some(job),
                             !.ret = Some([raised |-> "ValueError", message |-> Val(invalid)])])
             ELSE Step(q, [Frame(q) EXCEPT !.pc = "k_weight", !.job = Some(job)])
    /\ UNCHANGED <<trend_vars, pc, result, renal_vars, heap, app_vars>>

\* calculate_crcl: the local weight, the equation and the return
CrclReturn(q) ==
    /\ Frame(q).pc = "k_weight"
    /\ LET a == Val(Frame(q).job).args
           w == SelectedWeight(a.weight_kg, a.sex, a.use_ibw, a.height_cm)
           c == CrclFromWeight(a.age_years, w, a.serum_creatinine_mg_dl, a.sex)
       IN  Step(q, [Frame(q) EXCEPT !.pc = "done", !.weight = Some(w),
                                    !.ret = Some([returned |-> c])])
    /\ UNCHANGED <<trend_vars, pc, result, renal_vars, heap, app_vars>>

\* a call of get_renal_dose_category
CategoryCall(q) ==
    /\ Frame(q).pc = "idle"
    /\ \E job \in CategoryJobs :
         Step(q, [Frame(q) EXCEPT !.pc = "done", !.job = Some(job),
                    !.ret = Some(get_renal_dose_category(job.crcl))])
    /\ UNCHANGED <<trend_vars, pc, result, renal_vars, heap, app_vars>>

InitConc ==
    /\ mic_values \in ConcLists
    /\ susceptible_breakpoint = None
    /\ resistant_breakpoint = None
    /\ current_mic = None
    /\ pc = "idle"
    /\ result = [status |-> "not called"]
    /\ crcl_call = None
    /\ weight = None
    /\ crcl = None
    /\ procs = [q \in Procs |-> IdleFrame]
    /\ heap = <<>>
    /\ calls = <<>>
    /\ state = <<>>
    /\ trace = <<>>
    /\ module_globals = <<>>

NextConc ==
    \E q \in Procs :
        \/ CreepCall(q)
        \/ CreepSetOrganism(q)
        \/ CreepSetAntibiotic(q)
        \/ CreepSetBreakpoints(q)
        \/ CreepEstimate(q)
        \/ TrendCall(q)
        \/ CrclCheck(q)
        \/ CrclReturn(q)
        \/ CategoryCall(q)

SpecConc == InitConc /\ [][NextConc]_vars

----------------------------------------------------------------------------
(* src/tools/antibiotic_tools.py and the risk levels of src/utils.py *)

Trends == {"increasing", "stable", "decreasing"}
Baselines == {0, 1, 2}

\* the rows the breakpoint query returns: at most one (LIMIT 1), with columns that may be NULL
BreakpointRow == [mic_susceptible : OptBp, mic_resistant : OptBp]
BreakpointRows == {<<>>} \cup {<<row>> : row \in BreakpointRow}

\* interpret_mic_value with a value at the susceptible breakpoint not susceptible
interpret_mic_value_Strict(results, mic_value) ==
    IF results = <<>>
    THEN [interpretation |-> "UNKNOWN", mic_value |-> mic_value, breakpoints |-> None]
    ELSE LET bp == results[1]
             mic_s == bp.mic_susceptible
             mic_r == bp.mic_resistant
             interpretation ==
                 IF IsSome(mic_s) /\ mic_value < Val(mic_s) THEN "SUSCEPTIBLE"
                 ELSE IF IsSome(mic_r) /\ mic_value > Val(mic_r) THEN "RESISTANT"
                 ELSE IF IsSome(mic_s) /\ IsSome(mic_r) THEN "INTERMEDIATE"
                 ELSE "UNKNOWN"
         IN  [interpretation |-> interpretation,
              mic_value |-> mic_value,
              breakpoints |-> Some([susceptible |-> mic_s, resistant |-> mic_r])]

\* interpret_mic_value, on the rows its query returned
interpret_mic_value(results, mic_value) ==
    IF results = <<>>
    THEN [interpretation |-> "UNKNOWN", mic_value |-> mic_value, breakpoints |-> None]
    ELSE LET bp == results[1]
             mic_s == bp.mic_susceptible
             mic_r == bp.mic_resistant
             interpretation ==
                 IF IsSome(mic_s) /\ mic_value <= Val(mic_s) THEN "SUSCEPTIBLE"
                 ELSE IF IsSome(mic_r) /\ mic_value > Val(mic_r) THEN "RESISTANT"
                 ELSE IF IsSome(mic_s) /\ IsSome(mic_r) THEN "INTERMEDIATE"
                 ELSE "UNKNOWN"
         IN  [interpretation |-> interpretation,
              mic_value |-> mic_value,
              breakpoints |-> Some([susceptible |-> mic_s, resistant |-> mic_r])]

\* the arguments calculate_mic_trend passes to _assess_mic_risk
RiskArgs ==
    {[current |-> c,
      baseline |-> b,
      fold_change |-> IF b > 0 THEN Frac(c, b) ELSE Inf,
      trend |-> t,
      s_breakpoint |-> s,
      r_breakpoint |-> r] :
        c \in MicValues, b \in Baselines, t \in Trends, s \in OptBp, r \in OptBp}

\* two calls are made one after the other, so that their results can be compared
NextCall == IF pc = "idle" THEN "first" ELSE "second"

CallAssessRisk ==
    /\ pc \in {"idle", "first"}
    /\ \E a \in RiskArgs :
         calls' = Append(calls,
                         [fn |-> "_assess_mic_risk",
                          args |-> a,
                          returned |-> _assess_mic_risk(a.current, a.baseline, a.fold_change,
                                                        a.trend, a.s_breakpoint, a.r_breakpoint)])
    /\ pc' = NextCall
    /\ UNCHANGED <<trend_vars, result, renal_vars, conc_vars, state, trace, module_globals>>

CallInterpretMic ==
    /\ pc \in {"idle", "first"}
    /\ \E rows \in BreakpointRows, m \in MicValues :
         calls' = Append(calls,
                         [fn |-> "interpret_mic_value",
                          args |-> [results |-> rows, mic_value |-> m],
                          returned |-> interpret_mic_value(rows, m)])
    /\ pc' = NextCall
    /\ UNCHANGED <<trend_vars, result, renal_vars, conc_vars, state, trace, module_globals>>

InitRisk ==
    /\ mic_values = <<>>
    /\ susceptible_breakpoint = None
    /\ resistant_breakpoint = None
    /\ current_mic = None
    /\ pc = "idle"
    /\ result = [status |-> "not called"]
    /\ crcl_call = None
    /\ weight = None
    /\ crcl = None
    /\ procs = <<>>
    /\ heap = <<>>
    /\ calls = <<>>
    /\ state = <<>>
    /\ trace = <<>>
    /\ module_globals = <<>>

NextRisk ==
    \/ CallAssessRisk
    \/ CallInterpretMic

SpecRisk == InitRisk /\ [][NextRisk]_vars

----------------------------------------------------------------------------
(* src/tools/safety_tools.py *)

\* strings are sequences of characters here, so that lower() and the
\* substring test "x in y" are computed
UpperCase ==
    <<"A", "B", "C", "D", "E", "F", "G", "H", "I", "J", "K", "L", "M", "N", "O", "P", "Q", "R", "S", "T", "U", "V", "W", "X", "Y", "Z">>
LowerCase ==
    <<"a", "b", "c", "d", "e", "f", "g", "h", "i", "j", "k", "l", "m", "n", "o", "p", "q", "r", "s", "t", "u", "v", "w", "x", "y", "z">>

\* str.lower()
lower(s) ==
    [i \in DOMAIN s |->
        IF \E k \in DOMAIN UpperCase : UpperCase[k] = s[i]
        THEN LowerCase[CHOOSE k \in DOMAIN UpperCase : UpperCase[k] = s[i]]
        ELSE s[i]]

\* "x in y" for strings: x is a substring of y
Occurs(x, y) ==
    \E i \in 0 .. (Len(y) - Len(x)) : SubSeq(y, i + 1, i + Len(x)) = x

\* the names of the cross_reactivity table
s_penicillin ==
    <<"p", "e", "n", "i", "c", "i", "l", "l", "i", "n">>
s_amoxicillin ==
    <<"a", "m", "o", "x", "i", "c", "i", "l", "l", "i", "n">>
s_ampicillin ==
    <<"a", "m", "p", "i", "c", "i", "l", "l", "i", "n">>
s_piperacillin ==
    <<"p", "i", "p", "e", "r", "a", "c", "i", "l", "l", "i", "n">>
s_cephalosporin ==
    <<"c", "e", "p", "h", "a", "l", "o", "s", "p", "o", "r", "i", "n">>
s_ceftriaxone ==
    <<"c", "e", "f", "t", "r", "i", "a", "x", "o", "n", "e">>
s_cefotaxime ==
    <<"c", "e", "f", "o", "t", "a", "x", "i", "m", "e">>
s_ceftazidime ==
    <<"c", "e", "f", "t", "a", "z", "i", "d", "i", "m", "e">>
s_cefepime ==
    <<"c", "e", "f", "e", "p", "i", "m", "e">>
s_sulfa ==
    <<"s", "u", "l", "f", "a">>
s_sulfamethoxazole ==
    <<"s", "u", "l", "f", "a", "m", "e", "t", "h", "o", "x", "a", "z", "o", "l", "e">>
s_trimethoprim_sulfamethoxazole ==
    <<"t", "r", "i", "m", "e", "t", "h", "o", "p", "r", "i", "m", "-", "s", "u", "l", "f", "a", "m", "e", "t", "h", "o", "x", "a", "z", "o", "l", "e">>
s_bactrim ==
    <<"b", "a", "c", "t", "r", "i", "m">>
s_fluoroquinolone ==
    <<"f", "l", "u", "o", "r", "o", "q", "u", "i", "n", "o", "l", "o", "n", "e">>
s_ciprofloxacin ==
    <<"c", "i", "p", "r", "o", "f", "l", "o", "x", "a", "c", "i", "n">>
s_levofloxacin ==
    <<"l", "e", "v", "o", "f", "l", "o", "x", "a", "c", "i", "n">>
s_moxifloxacin ==
    <<"m", "o", "x", "i", "f", "l", "o", "x", "a", "c", "i", "n">>

\* the cross_reactivity table: allergen and the related drug names
cross_reactivity ==
    <<[allergen |-> s_penicillin,
       related |-> <<s_amoxicillin, s_ampicillin, s_piperacillin, s_cephalosporin>>],
      [allergen |-> s_cephalosporin,
       related |-> <<s_ceftriaxone, s_cefotaxime, s_ceftazidime, s_cefepime>>],
      [allergen |-> s_sulfa,
       related |-> <<s_sulfamethoxazole, s_trimethoprim_sulfamethoxazole, s_bactrim>>],
      [allergen |-> s_fluoroquinolone,
       related |-> <<s_ciprofloxacin, s_levofloxacin, s_moxifloxacin>>]>>

\* what the user types
Amoxicillin ==
    <<"A", "m", "o", "x", "i", "c", "i", "l", "l", "i", "n">>
Ciprofloxacin ==
    <<"C", "i", "p", "r", "o", "f", "l", "o", "x", "a", "c", "i", "n">>
Ceftriaxone ==
    <<"C", "e", "f", "t", "r", "i", "a", "x", "o", "n", "e">>
Penicillin ==
    <<"P", "e", "n", "i", "c", "i", "l", "l", "i", "n">>
Cipro ==
    <<"C", "i", "p", "r", "o">>
Sulfa ==
    <<"S", "u", "l", "f", "a">>

MaxInteractions == 2
MaxAllergies == 2

ProposedAntibiotics == {Amoxicillin, Ciprofloxacin, Ceftriaxone}
AllergyNames == {Penicillin, Cipro, Sulfa, s_amoxicillin}
AllergyLists == UNION {[1 .. n -> AllergyNames] : n \in 0 .. MaxAllergies}
MedicationLists == {<<>>, <<"warfarin">>}
Severities == {"major", "moderate", "minor"}
\* the rows of drug_interaction_lookup the query may return
InteractionRows == UNION {[1 .. n -> [severity : Severities]] : n \in 0 .. MaxInteractions}

\* check_drug_interactions: no query without medications
check_drug_interactions(patient_medications, rows) ==
    IF patient_medications = <<>> THEN <<>> ELSE rows

\* the alerts of the interactions, with an alert for minor interactions too
InteractionAlerts_MinorWarned(interactions) ==
    LET major == SelectSeq(interactions, LAMBDA i : i.severity = "major")
        moderate == SelectSeq(interactions, LAMBDA i : i.severity = "moderate")
        minor == SelectSeq(interactions, LAMBDA i : i.severity = "minor")
    IN  (IF major # <<>> THEN <<[level |-> "CRITICAL", found |-> Len(major)]>> ELSE <<>>)
        \o (IF moderate # <<>> THEN <<[level |-> "WARNING", found |-> Len(moderate)]>> ELSE <<>>)
        \o (IF minor # <<>> THEN <<[level |-> "WARNING", found |-> Len(minor)]>> ELSE <<>>)

\* the alerts of the interactions: one for the major ones, one for the moderate ones
InteractionAlerts(interactions) ==
    LET major == SelectSeq(interactions, LAMBDA i : i.severity = "major")
        moderate == SelectSeq(interactions, LAMBDA i : i.severity = "moderate")
    IN  (IF major # <<>> THEN <<[level |-> "CRITICAL", found |-> Len(major)]>> ELSE <<>>)
        \o (IF moderate # <<>> THEN <<[level |-> "WARNING", found |-> Len(moderate)]>> ELSE <<>>)

\* the cross-reactivity alerts of one allergy: one per related drug of a
\* matching allergen that occurs in the antibiotic name
RECURSIVE RelatedAlerts(_, _, _, _)
RelatedAlerts(related, k, allergy, antibiotic_lower) ==
    IF k > Len(related) THEN <<>>
    ELSE (IF Occurs(related[k], antibiotic_lower)
          THEN <<[level |-> "WARNING", allergy |-> allergy]>>
          ELSE <<>>)
         \o RelatedAlerts(related, k + 1, allergy, antibiotic_lower)

RECURSIVE CrossAlerts(_, _, _)
CrossAlerts(k, allergy, antibiotic_lower) ==
    IF k > Len(cross_reactivity) THEN <<>>
    ELSE (IF Occurs(cross_reactivity[k].allergen, lower(allergy))
          THEN RelatedAlerts(cross_reactivity[k].related, 1, allergy, antibiotic_lower)
          ELSE <<>>)
         \o CrossAlerts(k + 1, allergy, antibiotic_lower)

\* the loop over the allergies: the report after the allergies from k on
RECURSIVE AllergyLoop(_, _, _, _)
AllergyLoop(report, patient_allergies, k, antibiotic_lower) ==
    IF k > Len(patient_allergies) THEN report
    ELSE LET allergy == patient_allergies[k]
             direct == Occurs(lower(allergy), antibiotic_lower)
             after ==
                 [report EXCEPT
                    !.safe_to_use = IF direct THEN FALSE ELSE @,
                    !.allergy_warnings =
                        IF direct
                        THEN Append(@, [level |-> "CRITICAL", allergy |-> allergy])
                        ELSE @,
                    !.alerts = @ \o CrossAlerts(1, allergy, antibiotic_lower)]
         IN  AllergyLoop(after, patient_allergies, k + 1, antibiotic_lower)

NoConcerns == "No critical safety concerns identified."
ConcernsIdentified == "SAFETY CONCERNS IDENTIFIED - Review required before prescribing."

\* screen_antibiotic_safety, on the rows the interaction query returns
screen_antibiotic_safety(antibiotic, patient_medications, patient_allergies, rows) ==
    LET interactions == check_drug_interactions(patient_medications, rows)
        major == SelectSeq(interactions, LAMBDA i : i.severity = "major")
        checked ==
            [antibiotic |-> antibiotic,
             safe_to_use |-> major = <<>>,
             alerts |-> InteractionAlerts(interactions),
             interactions |-> interactions,
             allergy_warnings |-> <<>>]
        screened == AllergyLoop(checked, patient_allergies, 1, lower(antibiotic))
    IN  [antibiotic |-> screened.antibiotic,
         safe_to_use |-> screened.safe_to_use,
         alerts |-> screened.alerts,
         interactions |-> screened.interactions,
         allergy_warnings |-> screened.allergy_warnings,
         summary |-> IF screened.safe_to_use THEN NoConcerns ELSE ConcernsIdentified]

CallScreenSafety ==
    /\ pc = "idle"
    /\ \E antibiotic \in ProposedAntibiotics, meds \in MedicationLists,
          allergies \in AllergyLists, rows \in InteractionRows :
         calls' = <<[fn |-> "screen_antibiotic_safety",
                     args |-> [antibiotic |-> antibiotic,
                               patient_medications |-> meds,
                               patient_allergies |-> allergies,
                               rows |-> rows],
                     returned |-> screen_antibiotic_safety(antibiotic, meds, allergies, rows)]>>
    /\ pc' = "screened"
    /\ UNCHANGED <<trend_vars, result, renal_vars, conc_vars, state, trace, module_globals>>

NextSafety == CallScreenSafety

SpecSafety == InitRisk /\ [][NextSafety]_vars

----------------------------------------------------------------------------
(* src/loader.py: run_inference and run_inference_with_image *)

\* the texts _is_zerogpu_error looks for, and the texts of the errors met
s_GPU ==
    <<"G", "P", "U">>
s_ZeroGPU ==
    <<"Z", "e", "r", "o", "G", "P", "U">>
s_CUDA ==
    <<"C", "U", "D", "A">>
s_NoCudaGpus ==
    <<"N", "o", " ", "C", "U", "D", "A", " ", "G", "P", "U", "s", " ", "a", "r", "e", " ", "a", "v", "a", "i", "l", "a", "b", "l", "e">>
s_RuntimeError ==
    <<"R", "u", "n", "t", "i", "m", "e", "E", "r", "r", "o", "r">>
s_spaces_zero ==
    <<"s", "p", "a", "c", "e", "s", "/", "z", "e", "r", "o">>
s_device_api_zero ==
    <<"d", "e", "v", "i", "c", "e", "-", "a", "p", "i", ".", "z", "e", "r", "o">>
s_ZeroGPUException ==
    <<"Z", "e", "r", "o", "G", "P", "U", "E", "x", "c", "e", "p", "t", "i", "o", "n">>
s_ValueError ==
    <<"V", "a", "l", "u", "e", "E", "r", "r", "o", "r">>
s_quota ==
    <<"q", "u", "o", "t", "a", " ", "e", "x", "c", "e", "e", "d", "e", "d">>
s_quoted_RuntimeError ==
    <<"'", "R", "u", "n", "t", "i", "m", "e", "E", "r", "r", "o", "r", "'">>
s_no_model_path ==
    <<"N", "o", " ", "l", "o", "c", "a", "l", " ", "m", "o", "d", "e", "l", " ", "p", "a", "t", "h", " ", "c", "o", "n", "f", "i", "g", "u", "r", "e", "d">>
s_bad_prompt ==
    <<"b", "a", "d", " ", "p", "r", "o", "m", "p", "t">>
f_spaces ==
    <<"s", "p", "a", "c", "e", "s", "/", "z", "e", "r", "o", "/", "w", "r", "a", "p", "p", "e", "r", "s", ".", "p", "y">>
f_torch ==
    <<"t", "o", "r", "c", "h", "/", "c", "u", "d", "a", "/", "i", "n", "i", "t", ".", "p", "y">>
f_loader ==
    <<"s", "r", "c", "/", "l", "o", "a", "d", "e", "r", ".", "p", "y">>

\* an exception: its class name, its message and the files of its traceback
Exc(cls_name, msg, frames) == [cls_name |-> cls_name, msg |-> msg, frames |-> frames]

InferenceErrors ==
    {Exc(s_ZeroGPUException, s_quota, f_spaces),
     Exc(s_RuntimeError, s_NoCudaGpus, f_torch),
     Exc(s_RuntimeError, s_quoted_RuntimeError, f_loader),
     Exc(s_RuntimeError, s_no_model_path, f_loader),
     Exc(s_ValueError, s_bad_prompt, f_loader),
     Exc(s_ValueError, s_bad_prompt, f_spaces)}

\* traceback.format_exception: the frames, then "Class: message"
full_tb(e) == e.frames \o <<"\n">> \o e.cls_name \o <<":", " ">> \o e.msg

\* _is_zerogpu_error with every error taken for a GPU allocation failure
_is_zerogpu_error_Always(e) == e = e

\* _is_zerogpu_error
_is_zerogpu_error(e) ==
    IF Occurs(s_ZeroGPU, e.cls_name) \/ Occurs(s_GPU, e.cls_name) THEN TRUE
    ELSE IF Occurs(s_NoCudaGpus, e.msg) \/ Occurs(s_CUDA, e.msg) THEN TRUE
    ELSE IF Occurs(s_RuntimeError, e.msg) THEN TRUE
    ELSE Occurs(s_spaces_zero, full_tb(e)) \/ Occurs(s_device_api_zero, full_tb(e))

InferenceFunctions == {"run_inference", "run_inference_with_image"}
ModelNames == {"medgemma_4b", "txgemma_2b"}
Responses == {"{\"recommended_stage\": \"targeted\"}", "I could not answer"}
\* what one attempt ends with: the text of the model, or an exception
Outcomes ==
    {[returned |-> r] : r \in Responses} \cup {[raised |-> e] : e \in InferenceErrors}

\* the wrapped function of the GPU attempt and the core of the CPU attempt
GpuFunction(fn) ==
    IF fn = "run_inference" THEN "_run_inference_gpu" ELSE "_run_inference_with_image_gpu"
CoreFunction(fn) ==
    IF fn = "run_inference" THEN "_inference_core" ELSE "_inference_with_image_core"

\* the call is entered
InferenceCall ==
    /\ pc = "idle"
    /\ \E fn \in InferenceFunctions, m \in ModelNames :
         calls' = <<[fn |-> fn, args |-> [model_name |-> m]]>>
    /\ pc' = "try"
    /\ UNCHANGED <<trend_vars, result, renal_vars, conc_vars, state, trace, module_globals>>

\* try: return _run_inference_gpu(...)
GpuAttempt ==
    /\ pc = "try"
    /\ \E o \in Outcomes :
         /\ trace' = Append(trace, [called |-> GpuFunction(calls[1].fn), outcome |-> o])
         /\ IF "returned" \in DOMAIN o
            THEN pc' = "done" /\ result' = o
            ELSE pc' = "except" /\ result' = result
    /\ UNCHANGED <<trend_vars, renal_vars, conc_vars, calls, state, module_globals>>

\* except Exception as e: if _is_zerogpu_error(e) ... else raise
ClassifyError ==
    /\ pc = "except"
    /\ LET e == trace[Len(trace)].outcome.raised
       IN  IF _is_zerogpu_error(e)
           THEN pc' = "retry" /\ result' = result
           ELSE pc' = "done" /\ result' = [raised |-> e]
    /\ UNCHANGED <<trend_vars, renal_vars, conc_vars, calls, state, trace, module_globals>>

\* the retry on CPU: its result is returned, its exception is raised again
CpuAttempt ==
    /\ pc = "retry"
    /\ \E o \in Outcomes :
         /\ trace' = Append(trace, [called |-> CoreFunction(calls[1].fn), outcome |-> o])
         /\ result' = o
    /\ pc' = "done"
    /\ UNCHANGED <<trend_vars, renal_vars, conc_vars, calls, state, module_globals>>

NextInference ==
    \/ InferenceCall
    \/ GpuAttempt
    \/ ClassifyError
    \/ CpuAttempt

SpecInference == InitRisk /\ [][NextInference]_vars

----------------------------------------------------------------------------
(* The lazily built singletons: src/rag.py 26-53 and the lru_cache of src/loader.py *)

\* the module-level names of rag.py that hold a singleton
GlobalNames == {"_chroma_client", "_embedding_function"}
\* the getters: the two of rag.py, and get_text_model for each model name
Getters ==
    {[fn |-> "get_chroma_client", name |-> "_chroma_client"],
     [fn |-> "get_embedding_function", name |-> "_embedding_function"]}
    \cup {[fn |-> "get_text_model", name |-> m] : m \in ModelNames}

IdleCaller == [pc |-> "idle", getter |-> None, ret |-> None]

\* a thread enters a getter
GetterCall(q) ==
    /\ Frame(q).pc = "idle"
    /\ \E g \in Getters :
         Step(q, [Frame(q) EXCEPT
                    !.pc = IF g.fn = "get_text_model" THEN "lookup" ELSE "check",
                    !.getter = Some(g)])
    /\ UNCHANGED <<trend_vars, pc, result, renal_vars, heap, app_vars>>

\* if _chroma_client is None:
GlobalCheck(q) ==
    /\ Frame(q).pc = "check"
    /\ Step(q, [Frame(q) EXCEPT
                  !.pc = IF module_globals[Val(Frame(q).getter).name] = None
                         THEN "build" ELSE "return"])
    /\ UNCHANGED <<trend_vars, pc, result, renal_vars, heap, app_vars>>

\* _chroma_client = chromadb.PersistentClient(...)
GlobalBuild(q) ==
    /\ Frame(q).pc = "build"
    /\ LET name == Val(Frame(q).getter).name
           a == Alloc(heap, [built_for |-> name])
       IN  /\ heap' = a.heap
           /\ module_globals' = [module_globals EXCEPT ![name] = Some(a.addr)]
    /\ Step(q, [Frame(q) EXCEPT !.pc = "return"])
    /\ UNCHANGED <<trend_vars, pc, result, renal_vars, calls, state, trace>>

\* return _chroma_client
GlobalReturn(q) ==
    /\ Frame(q).pc = "return"
    /\ Step(q, [Frame(q) EXCEPT
                  !.pc = "done",
                  !.ret = module_globals[Val(Frame(q).getter).name]])
    /\ UNCHANGED <<trend_vars, pc, result, renal_vars, heap, app_vars>>

\* the wrapper of lru_cache looks the key up: a hit is returned
CacheLookup(q) ==
    /\ Frame(q).pc = "lookup"
    /\ LET cached == module_globals.lru_cache[Val(Frame(q).getter).name]
       IN  Step(q, IF cached = None
                   THEN [Frame(q) EXCEPT !.pc = "load"]
                   ELSE [Frame(q) EXCEPT !.pc = "done", !.ret = cached])
    /\ UNCHANGED <<trend_vars, pc, result, renal_vars, heap, app_vars>>

\* on a miss the function runs and loads the model; its result is stored
\* unless the key was added meanwhile, and returned in both cases
CacheLoad(q) ==
    /\ Frame(q).pc = "load"
    /\ LET name == Val(Frame(q).getter).name
           a == Alloc(heap, [built_for |-> name])
       IN  /\ heap' = a.heap
           /\ module_globals' =
                  IF module_globals.lru_cache[name] = None
                  THEN [module_globals EXCEPT !.lru_cache[name] = Some(a.addr)]
                  ELSE module_globals
           /\ Step(q, [Frame(q) EXCEPT !.pc = "done", !.ret = Some(a.addr)])
    /\ UNCHANGED <<trend_vars, pc, result, renal_vars, calls, state, trace>>

InitSingletons ==
    /\ mic_values = <<>>
    /\ susceptible_breakpoint = None
    /\ resistant_breakpoint = None
    /\ current_mic = None
    /\ pc = "idle"
    /\ result = [status |-> "not called"]
    /\ crcl_call = None
    /\ weight = None
    /\ crcl = None
    /\ procs = [q \in Procs |-> IdleCaller]
    /\ heap = <<>>
    /\ calls = <<>>
    /\ state = <<>>
    /\ trace = <<>>
    /\ module_globals = [_chroma_client |-> None,
                         _embedding_function |-> None,
                         lru_cache |-> [m \in ModelNames |-> None]]

NextSingletons ==
    \E q \in Procs :
        \/ GetterCall(q)
        \/ GlobalCheck(q)
        \/ GlobalBuild(q)
        \/ GlobalReturn(q)
        \/ CacheLookup(q)
        \/ CacheLoad(q)

SpecSingletons == InitSingletons /\ [][NextSingletons]_vars

----------------------------------------------------------------------------
(* src/agents.py and src/graph.py: the four agents and the graph that runs them *)

\* state.get(key, default) and state.setdefault(key, []).append(item)
Get(d, k, default) == IF k \in DOMAIN d THEN d[k] ELSE default
AppendTo(d, k, item) == SetItem(d, k, Append(Get(d, k, <<>>), item))

\* an optional number, or an optional text, that counts as false
Falsy(v) == v = None \/ Val(v) = 0
FalsyText(v) == v = None \/ Val(v) = ""

\* what run_pipeline is called with; weight in tenths of a kg, serum
\* creatinine in tenths of a mg/dL, as in calculate_crcl above
PatientAges == {None, Some(-5), Some(0), Some(65)}
PatientWeights == {Some(0), Some(700)}
PatientCreatinines == {Some(-1), Some(0), Some(12)}
PatientData ==
    [age_years : PatientAges, weight_kg : PatientWeights,
     serum_creatinine_mg_dl : PatientCreatinines, sex : {Some("male")}]
LabReport == "E. coli isolated. Ciprofloxacin MIC: 0.5 mg/L (S)"
LabTexts == {None, Some(""), Some(LabReport)}

\* the exception a failed inference raises
InferenceFailure == [cls_name |-> "RuntimeError", msg |-> "No local model path configured"]

\* what run_inference gives an agent: an exception, or a response, which is
\* prose, a JSON object (here with its members), or JSON that is no object
Raised(e) == [raised |-> e]
Prose == [returned |-> [kind |-> "prose"]]
JsonObject(members) == [returned |-> [kind |-> "object", members |-> members]]
JsonNumber == [returned |-> [kind |-> "number"]]

\* safe_json_parse: None for text that holds no JSON
safe_json_parse(response) == IF response.kind = "prose" THEN None ELSE Some(response)

\* the first member access of an agent (parsed.get) fails on JSON that is no object
AttributeError == [cls_name |-> "AttributeError", msg |-> "object has no attribute"]

IntakeAnswers ==
    {Raised(InferenceFailure), Prose, JsonNumber,
     JsonObject([patient_summary |-> "65 year old male"]),
     JsonObject([recommended_stage |-> "empirical"]),
     JsonObject([recommended_stage |-> "targeted"]),
     JsonObject([recommended_stage |-> "targeted", creatinine_clearance_ml_min |-> 45])}

\* the initial state run_pipeline builds
InitialState(patient_data, labs_raw_text) ==
    LET given ==
            [age_years |-> patient_data.age_years,
             weight_kg |-> patient_data.weight_kg,
             height_cm |-> None,
             sex |-> patient_data.sex,
             serum_creatinine_mg_dl |-> patient_data.serum_creatinine_mg_dl]
    IN  IF ~FalsyText(labs_raw_text)
        THEN SetItem(SetItem(given, "labs_raw_text", labs_raw_text), "stage", "targeted")
        ELSE SetItem(given, "stage", "empirical")

\* the CrCl step of the Intake Historian: skipped unless all four inputs are
\* truthy; a ValueError of the calculator becomes an entry of errors
CrclStep(s) ==
    IF \/ Falsy(s.age_years) \/ Falsy(s.weight_kg)
       \/ Falsy(s.serum_creatinine_mg_dl) \/ FalsyText(s.sex)
    THEN [state |-> s, crcl |-> None]
    ELSE LET c == calculate_crcl(Val(s.age_years), Val(s.weight_kg),
                                 Val(s.serum_creatinine_mg_dl), Val(s.sex),
                                 TRUE, Get(s, "height_cm", None))
         IN  IF "raised" \in DOMAIN c
             THEN [state |-> AppendTo(s, "errors",
                                      [what |-> "CrCl calculation error",
                                       e |-> [cls_name |-> c.raised, msg |-> c.message]]),
                   crcl |-> None]
             ELSE [state |-> SetItem(s, "creatinine_clearance_ml_min", Some(c.returned)),
                   crcl |-> Some(c.returned)]

HasLabs(s) == ~FalsyText(Get(s, "labs_raw_text", None))

\* the except branch of the Intake Historian
IntakeFailed(s, e) ==
    SetItem(SetItem(AppendTo(s, "errors", [what |-> "Intake Historian error", e |-> e]),
                    "intake_notes", [error |-> e]),
            "stage", "empirical")

\* run_intake_historian, on what its inference gives
run_intake_historian(s, answer) ==
    LET step == CrclStep(s)
        t == step.state
    IN  IF "raised" \in DOMAIN answer THEN IntakeFailed(t, answer.raised)
        ELSE LET response == answer.returned
                 parsed == safe_json_parse(response)
             IN  IF parsed = None
                 THEN SetItem(SetItem(SetItem(t, "intake_notes", response),
                                      "stage", "empirical"),
                              "route_to_vision", HasLabs(t))
                 ELSE IF response.kind # "object"
                 THEN IntakeFailed(SetItem(t, "intake_notes", response), AttributeError)
                 ELSE LET members == response.members
                          noted == SetItem(t, "intake_notes", response)
                          fromModel ==
                              IF /\ "creatinine_clearance_ml_min" \in DOMAIN members
                                 /\ members.creatinine_clearance_ml_min # 0
                                 /\ step.crcl = None
                              THEN SetItem(noted, "creatinine_clearance_ml_min",
                                           Some(Frac(members.creatinine_clearance_ml_min, 1)))
                              ELSE noted
                      IN  SetItem(SetItem(fromModel, "stage",
                                          Get(members, "recommended_stage", "empirical")),
                                  "route_to_vision", HasLabs(t))

\* route_after_intake
route_after_intake(s) ==
    IF Get(s, "stage", "empirical") = "targeted" /\ Get(s, "route_to_vision", FALSE)
    THEN "vision_specialist"
    ELSE "clinical_pharmacologist"

\* one row of susceptibility_results, and one whose organism is null
SusceptibilityRow == [organism |-> "E. coli", antibiotic |-> "cipro", mic_value |-> 1]
NullRow == [organism |-> "null", antibiotic |-> "cipro", mic_value |-> 1]

VisionAnswers ==
    {Raised(InferenceFailure), Prose, JsonNumber,
     JsonObject([susceptibility_results |-> <<>>]),
     JsonObject([susceptibility_results |-> <<SusceptibilityRow>>]),
     JsonObject([susceptibility_results |-> <<SusceptibilityRow, SusceptibilityRow>>]),
     JsonObject([susceptibility_results |-> <<SusceptibilityRow, NullRow>>])}

\* normalize_organism_name and normalize_antibiotic_name on the names above
normalize_organism_name(name) == IF name = "E. coli" THEN "Escherichia coli" ELSE name
normalize_antibiotic_name(name) == IF name = "cipro" THEN "ciprofloxacin" ELSE name

MicDatum(row) ==
    [organism |-> normalize_organism_name(row.organism),
     antibiotic |-> normalize_antibiotic_name(row.antibiotic),
     mic_value |-> row.mic_value,
     mic_unit |-> "mg/L"]

\* the except branch of the Vision Specialist
VisionFailed(s, e) ==
    SetItem(SetItem(AppendTo(s, "errors", [what |-> "Vision Specialist error", e |-> e]),
                    "vision_notes", [error |-> e]),
            "route_to_trend_analyst", FALSE)

\* run_vision_specialist, on what its inference gives
run_vision_specialist(s, answer) ==
    IF ~HasLabs(s)
    THEN SetItem(SetItem(s, "vision_notes", [skipped |-> "No lab data provided"]),
                 "route_to_trend_analyst", FALSE)
    ELSE IF "raised" \in DOMAIN answer THEN VisionFailed(s, answer.raised)
    ELSE LET response == answer.returned
             parsed == safe_json_parse(response)
         IN  IF parsed = None
             THEN SetItem(SetItem(s, "vision_notes", response),
                          "route_to_trend_analyst", FALSE)
             ELSE IF response.kind # "object"
             THEN VisionFailed(s, AttributeError)
             ELSE LET rows == Get(response.members, "susceptibility_results", <<>>)
                  IN  IF \E i \in DOMAIN rows : rows[i].organism = "null"
                      THEN VisionFailed(s, AttributeError)
                      ELSE LET mic_data == [i \in DOMAIN rows |-> MicDatum(rows[i])]
                           IN  SetItem(SetItem(SetItem(SetItem(s,
                                   "vision_notes", response),
                                   "mic_data", mic_data),
                                   "labs_parsed", <<>>),
                                   "route_to_trend_analyst", Len(mic_data) > 0)

\* route_after_vision
route_after_vision(s) ==
    IF Get(s, "route_to_trend_analyst", FALSE)
    THEN "trend_analyst"
    ELSE "clinical_pharmacologist"

TrendAnswers ==
    {Raised(InferenceFailure), Prose, JsonNumber,
     JsonObject([risk_level |-> "LOW"]),
     JsonObject([risk_level |-> "HIGH"])}

\* the answer parses to JSON that is no object
NotAnObject(answer) ==
    /\ "returned" \in DOMAIN answer
    /\ safe_json_parse(answer.returned) # None
    /\ answer.returned.kind # "object"

\* what one turn of the loop of the Trend Analyst adds to trend_results; JSON
\* that is no object is appended before parsed.get fails on it, and the
\* failure is appended after it
TrendResult(answer) ==
    IF "raised" \in DOMAIN answer THEN <<[error |-> answer.raised]>>
    ELSE IF safe_json_parse(answer.returned) = None THEN <<[raw_response |-> answer.returned]>>
    ELSE IF NotAnObject(answer) THEN <<answer.returned, [error |-> AttributeError]>>
    ELSE <<answer.returned.members>>

RECURSIVE TrendResults(_, _)
TrendResults(answers, k) ==
    IF k > Len(answers) THEN <<>>
    ELSE TrendResult(answers[k]) \o TrendResults(answers, k + 1)

HighRisk(t) == "risk_level" \in DOMAIN t /\ t.risk_level \in {"HIGH", "CRITICAL"}

\* run_trend_analyst, on what the inference of each turn gives: the state it
\* returns, or the exception that leaves it. The count of the high-risk
\* findings calls t.get on every entry of trend_results, outside any try.
run_trend_analyst(s, answers) ==
    LET mic_data == Get(s, "mic_data", <<>>)
    IN  IF mic_data = <<>>
        THEN [returned |-> SetItem(s, "trend_notes", <<[skipped |-> "No MIC data available"]>>)]
        ELSE IF \E i \in DOMAIN answers : NotAnObject(answers[i])
        THEN [raised |-> AttributeError]
        ELSE LET trend_results == TrendResults(answers, 1)
                 alerts == SelectSeq(trend_results, HighRisk)
                 warned == IF alerts = <<>> THEN s
                           ELSE SetItem(s, "safety_warnings",
                                        Get(s, "safety_warnings", <<>>)
                                        \o [i \in DOMAIN alerts |-> "MIC trend alert"])
             IN  [returned |->
                     SetItem(SetItem(warned, "trend_notes", trend_results),
                             "mic_trend_summary",
                             [analyzed |-> Len(trend_results), high_risk |-> Len(alerts)])]

PharmacologistAnswers ==
    {Raised(InferenceFailure), Prose, JsonNumber,
     JsonObject([rationale |-> "supportive care"]),
     JsonObject([primary_recommendation |-> [antibiotic |-> "ciprofloxacin"]])}
\* what _run_txgemma_safety_check returns: None when its own inference failed
SafetyChecks == {None, Some("no concerns")}

\* run_clinical_pharmacologist, on what its inference and the safety check give
run_clinical_pharmacologist(s, answer, safety_result) ==
    IF "raised" \in DOMAIN answer
    THEN SetItem(AppendTo(s, "errors", [what |-> "Clinical Pharmacologist error",
                                       e |-> answer.raised]),
                 "pharmacology_notes", [error |-> answer.raised])
    ELSE LET response == answer.returned
             parsed == safe_json_parse(response)
         IN  IF parsed = None
             THEN SetItem(SetItem(s, "pharmacology_notes", response),
                          "recommendation", [rationale |-> response])
             ELSE IF response.kind # "object"
             THEN SetItem(AppendTo(s, "errors", [what |-> "Clinical Pharmacologist error",
                                                e |-> AttributeError]),
                          "pharmacology_notes", [error |-> AttributeError])
             ELSE LET primary == Get(response.members, "primary_recommendation", <<>>)
                      recommended ==
                          SetItem(SetItem(s, "pharmacology_notes", response),
                                  "recommendation",
                                  [primary_antibiotic |-> Get(primary, "antibiotic", "null"),
                                   rationale |-> Get(response.members, "rationale", "null")])
                  IN  IF "antibiotic" \in DOMAIN primary /\ safety_result # None
                      THEN AppendTo(recommended, "debug_log", Val(safety_result))
                      ELSE recommended

Nodes == {"intake_historian", "vision_specialist", "trend_analyst", "clinical_pharmacologist"}

\* the node has run: it is noted with what its inference calls gave
Ran(node, inference) == trace' = Append(trace, [node |-> node, inference |-> inference])

\* run_pipeline builds the initial state and invokes the graph at its entry point
RunPipeline ==
    /\ pc = "idle"
    /\ \E patient_data \in PatientData, labs_raw_text \in LabTexts :
         state' = InitialState(patient_data, labs_raw_text)
    /\ pc' = "intake_historian"
    /\ UNCHANGED <<trend_vars, result, renal_vars, conc_vars, calls, trace, module_globals>>

IntakeHistorianNode ==
    /\ pc = "intake_historian"
    /\ \E answer \in IntakeAnswers :
         /\ state' = run_intake_historian(state, answer)
         /\ Ran("intake_historian", <<answer>>)
    /\ pc' = route_after_intake(state')
    /\ UNCHANGED <<trend_vars, result, renal_vars, conc_vars, calls, module_globals>>

VisionSpecialistNode ==
    /\ pc = "vision_specialist"
    /\ \E answer \in VisionAnswers :
         /\ state' = run_vision_specialist(state, answer)
         /\ Ran("vision_specialist", IF HasLabs(state) THEN <<answer>> ELSE <<>>)
    /\ pc' = route_after_vision(state')
    /\ UNCHANGED <<trend_vars, result, renal_vars, conc_vars, calls, module_globals>>

TrendAnalystNode ==
    /\ pc = "trend_analyst"
    /\ \E answers \in [DOMAIN Get(state, "mic_data", <<>>) -> TrendAnswers] :
         LET out == run_trend_analyst(state, answers)
         IN  /\ Ran("trend_analyst", answers)
             /\ IF "raised" \in DOMAIN out
                THEN /\ pc' = "raised"
                     /\ result' = out
                     /\ state' = state
                ELSE /\ pc' = "clinical_pharmacologist"
                     /\ result' = result
                     /\ state' = out.returned
    /\ UNCHANGED <<trend_vars, renal_vars, conc_vars, calls, module_globals>>

ClinicalPharmacologistNode ==
    /\ pc = "clinical_pharmacologist"
    /\ \E answer \in PharmacologistAnswers, safety_result \in SafetyChecks :
         /\ state' = run_clinical_pharmacologist(state, answer, safety_result)
         /\ Ran("clinical_pharmacologist", <<answer>>)
    /\ pc' = "END"
    /\ result' = state'
    /\ UNCHANGED <<trend_vars, renal_vars, conc_vars, calls, module_globals>>

NextPipeline ==
    \/ RunPipeline
    \/ IntakeHistorianNode
    \/ VisionSpecialistNode
    \/ TrendAnalystNode
    \/ ClinicalPharmacologistNode

SpecPipeline == InitRisk /\ [][NextPipeline]_vars

\* a node that is due runs: the graph is invoked synchronously to its END
SpecPipelineFair == SpecPipeline /\ WF_vars(NextPipeline)

----------------------------------------------------------------------------
(* What the claims speak about *)

N == Len(mic_values)
First == mic_values[1].mic_value
Last == mic_values[N].mic_value
AllPositive == \A i \in 1 .. N : mic_values[i].mic_value > 0
BothSupplied == IsSome(susceptible_breakpoint) /\ IsSome(resistant_breakpoint)
NoneSupplied == susceptible_breakpoint = None /\ resistant_breakpoint = None
Analysed == pc = "utils" /\ N >= 2

BreakpointAlerts ==
    {"exceeds resistant breakpoint", "exceeds susceptible breakpoint",
     "approaching breakpoint with increasing trend", "close to breakpoint",
     "rising with margin to breakpoint", "stable with adequate margin to breakpoint",
     "well below breakpoint"}

RatioAlerts ==
    {"urgent review needed", "high risk of treatment failure",
     "enhanced monitoring recommended", "increased but trend is not rising",
     "upward trend, continue monitoring", "stable or decreasing"}

AboveLow == {"MODERATE", "HIGH", "CRITICAL"}

\* the table of the design document for the breakpoint-aware path, with
\* margin = s / current for current > 0: margin < k iff s < k * current
BreakpointTable(current, s, r, trend) ==
    IF current > r THEN "CRITICAL"
    ELSE IF current > s THEN "HIGH"
    ELSE IF s < 2 * current THEN (IF trend = "increasing" THEN "HIGH" ELSE "MODERATE")
    ELSE IF s < 4 * current THEN (IF trend = "increasing" THEN "MODERATE" ELSE "LOW")
    ELSE "LOW"

\* the table of the design document for the path without breakpoints, with
\* ratio = current / baseline for baseline > 0: ratio >= k iff current >= k * baseline
RatioTable(current, baseline, trend) ==
    IF current >= 8 * baseline THEN "CRITICAL"
    ELSE IF current >= 4 * baseline THEN "HIGH"
    ELSE IF current >= 2 * baseline THEN (IF trend = "increasing" THEN "MODERATE" ELSE "LOW")
    ELSE IF trend = "increasing" THEN "MODERATE"
    ELSE "LOW"

\* the ordinary-least-squares slope of the points (i, m[i]), i = 0..n-1, in its
\* textbook form (n Sxy - Sx Sy) / (n Sxx - Sx Sx)
OlsNum ==
    LET m(i) == mic_values[i + 1].mic_value
        Sx == Sum([j \in 1 .. N |-> j - 1])
        Sy == Sum([j \in 1 .. N |-> m(j - 1)])
        Sxy == Sum([j \in 1 .. N |-> (j - 1) * m(j - 1)])
    IN  N * Sxy - Sx * Sy

OlsDen ==
    LET Sx == Sum([j \in 1 .. N |-> j - 1])
        Sxx == Sum([j \in 1 .. N |-> (j - 1) * (j - 1)])
    IN  N * Sxx - Sx * Sx

----------------------------------------------------------------------------
(* The claims *)

\* C1: with both breakpoints supplied (susceptible <= resistant), at least 2
\* readings and a positive current MIC, the risk level of calculate_mic_trend
\* is the one of the ordered breakpoint table: CRITICAL above the resistant
\* breakpoint, else HIGH above the susceptible one, else by margin < 2 and
\* margin < 4 together with the trend, else LOW.
C1_BreakpointRiskTable ==
    (/\ Analysed
     /\ BothSupplied
     /\ Val(susceptible_breakpoint) <= Val(resistant_breakpoint)
     /\ Last > 0)
    => result.risk_level = BreakpointTable(Last, Val(susceptible_breakpoint),
                                           Val(resistant_breakpoint), result.trend)

\* a call whose current MIC has a margin of exactly 2 to the susceptible
\* breakpoint while the trend rises: MODERATE, not HIGH
C1_Witness ==
    /\ Analysed
    /\ BothSupplied
    /\ Val(susceptible_breakpoint) <= Val(resistant_breakpoint)
    /\ Last > 0
    /\ Val(susceptible_breakpoint) = 2 * Last
    /\ result.trend = "increasing"
    /\ result.risk_level = "MODERATE"

\* C2: with no breakpoints, at least 2 readings and a positive baseline, the
\* risk level is the one of the ordered ratio table (>= 8 CRITICAL, >= 4 HIGH,
\* otherwise MODERATE when the trend is increasing and LOW when not); two
\* readings with a 4-fold rise give trend increasing and risk HIGH.
C2_RatioRiskTable ==
    (Analysed /\ NoneSupplied /\ First > 0)
    => /\ result.risk_level = RatioTable(Last, First, result.trend)
       /\ (N = 2 /\ Last = 4 * First)
          => (result.trend = "increasing" /\ result.risk_level = "HIGH")

\* two readings with a 4-fold rise, no breakpoints, reported HIGH
C2_Witness ==
    /\ Analysed
    /\ NoneSupplied
    /\ N = 2
    /\ First > 0
    /\ Last = 4 * First
    /\ result.risk_level = "HIGH"

\* C3: unless both breakpoints are supplied, the result of calculate_mic_trend
\* is the result of the same readings without breakpoints, and its alert is
\* one of the ratio path; with both supplied the alert is one of the
\* breakpoint path: exactly one path is taken.
C3_BreakpointPathOnlyWithBoth ==
    (pc = "utils")
    => /\ ~BothSupplied => result = calculate_mic_trend(mic_values, None, None)
       /\ N >= 2 => /\ BothSupplied <=> result.alert \in BreakpointAlerts
                    /\ ~BothSupplied <=> result.alert \in RatioAlerts

\* only the susceptible breakpoint is supplied and the current MIC exceeds
\* it, yet the risk is the LOW of the ratio path
C3_Witness ==
    /\ Analysed
    /\ IsSome(susceptible_breakpoint)
    /\ resistant_breakpoint = None
    /\ Last > Val(susceptible_breakpoint)
    /\ result.risk_level = "LOW"
    /\ result.alert \in RatioAlerts

\* C4: at least 2 positive readings, a ratio current/baseline of at least 4
\* and a current MIC at or below the susceptible breakpoint (when one is
\* passed, with susceptible <= resistant) give a risk level above LOW, with
\* or without breakpoints.
C4_CreepFlaggedBeforeResistance ==
    (/\ Analysed
     /\ AllPositive
     /\ Last >= 4 * First
     /\ BothSupplied => Val(susceptible_breakpoint) <= Val(resistant_breakpoint)
     /\ IsSome(susceptible_breakpoint) => Last <= Val(susceptible_breakpoint))
    => result.risk_level \in AboveLow

\* C5: with fewer than 2 readings calculate_mic_trend returns (it raises
\* nothing) trend "insufficient_data" and risk_level "UNKNOWN" and none of
\* the numeric fields, whatever the breakpoints.
C5_InsufficientData ==
    (pc = "utils" /\ N < 2)
    => /\ "raised" \notin DOMAIN result
       /\ "trend" \in DOMAIN result /\ result.trend = "insufficient_data"
       /\ "risk_level" \in DOMAIN result /\ result.risk_level = "UNKNOWN"
       /\ DOMAIN result \cap {"baseline_mic", "current_mic", "ratio", "velocity", "n_readings"} = {}

\* a single reading analysed with both breakpoints supplied
C5_Witness ==
    /\ pc = "utils"
    /\ N = 1
    /\ BothSupplied
    /\ result.trend = "insufficient_data"

\* C6: with a baseline reading of 0 the ratio is current / 0.001, and the
\* risk level without breakpoints is the one of that ratio (baseline 0 and
\* current 0: ratio 0, risk LOW).
C6_ZeroBaselineFloor ==
    (Analysed /\ First = 0)
    => /\ result.ratio = Round(Frac(Last * 1000, 1), 100)
       /\ NoneSupplied
          => result.risk_level = RatioRisk(Frac(Last * 1000, 1), result.trend)[1]

\* C7: for 3 or more readings the trend is decided by the least-squares slope
\* alone: increasing iff slope > 0.5, decreasing iff slope < -0.5, stable
\* otherwise.
C7_SlopeDecidesTrend ==
    (pc = "utils" /\ N >= 3)
    => /\ result.trend = "increasing" <=> 2 * OlsNum > OlsDen
       /\ result.trend = "decreasing" <=> 2 * OlsNum < -OlsDen
       /\ result.trend = "stable" <=> (2 * OlsNum <= OlsDen /\ 2 * OlsNum >= -OlsDen)

\* three or more readings whose slope is exactly 0.5 although the last
\* reading is twice the first: stable
C7_Witness ==
    /\ pc = "utils"
    /\ N >= 3
    /\ 2 * OlsNum = OlsDen
    /\ First > 0
    /\ Last >= 2 * First
    /\ result.trend = "stable"

\* C8: for exactly 2 positive readings the trend is decided by the ratio
\* current/baseline alone: increasing iff ratio > 1.5, decreasing iff
\* ratio < 0.67, stable otherwise.
C8_RatioDecidesPairTrend ==
    (pc = "utils" /\ N = 2 /\ AllPositive)
    => /\ result.trend = "increasing" <=> FracGT(Frac(Last, First), 3, 2)
       /\ result.trend = "decreasing" <=> FracLT(Frac(Last, First), 67, 100)
       /\ result.trend = "stable" <=> /\ ~FracGT(Frac(Last, First), 3, 2)
                                      /\ ~FracLT(Frac(Last, First), 67, 100)

\* two readings rising by 1 mg/L (a slope of 1) with a ratio below 1.5: stable
C8_Witness ==
    /\ pc = "utils"
    /\ N = 2
    /\ AllPositive
    /\ Last - First >= 1
    /\ result.trend = "stable"

\* C9: an analysis of at least 2 positive readings (no further current MIC
\* passed) reports the first reading of the caller's list as baseline_mic and
\* the last as current_mic, whatever the date keys.
C9_ListOrderKept ==
    (/\ pc \in {"utils", "tools"}
     /\ N >= 2
     /\ AllPositive
     /\ current_mic = None)
    => /\ result.baseline_mic = First
       /\ result.current_mic = Last

\* C10, as stated: for every list of at least 1 positive reading the result
\* carries a reading count equal to the length of the list.
C10_CountForAnyValidList ==
    (pc = "utils" /\ N >= 1 /\ AllPositive)
    => /\ "n_readings" \in DOMAIN result
       /\ result.n_readings = N

\* C10, amended: for every list of at least 2 positive readings the result
\* carries a reading count equal to the length of the list.
C10_CountForTwoOrMore ==
    (Analysed /\ AllPositive)
    => /\ "n_readings" \in DOMAIN result
       /\ result.n_readings = N

\* three or more positive readings, counted
C10_Witness ==
    /\ Analysed
    /\ AllPositive
    /\ N >= 3
    /\ result.n_readings = N

EstimatePresent == "estimated_readings_to_resistance" \in DOMAIN result

MaxLog2 == 10
\* log2(f) when f is a whole power of two, None otherwise
Log2Int(f) ==
    IF \E i \in 0 .. MaxLog2 : f.num = f.den * Pow(2, i)
    THEN Some(CHOOSE i \in 0 .. MaxLog2 : f.num = f.den * Pow(2, i))
    ELSE None

\* both logarithms of the estimate are whole numbers, the divisor not 0
WholeLogs(e) ==
    /\ ~IsInf(e.per_log2_of)
    /\ IsSome(Log2Int(e.log2_of))
    /\ IsSome(Log2Int(e.per_log2_of))
    /\ Val(Log2Int(e.per_log2_of)) > 0

\* the number a LogQuotient stands for, when both logarithms are whole
QuotientOf(e) == Frac(Val(Log2Int(e.log2_of)), Val(Log2Int(e.per_log2_of)))
EstimateValue(e) ==
    IF e.decimals = None THEN QuotientOf(e)
    ELSE Round(QuotientOf(e), Pow(10, Val(e.decimals)))

SameNumber(f, g) == f.num * g.den = g.num * f.den

\* C11, as stated: the estimate, when present, is the number
\* log2(susceptible_breakpoint / current_mic) / log2(velocity) itself
\* (decided where both logarithms are whole numbers).
C11_EstimateIsTheQuotient ==
    (pc = "creep" /\ EstimatePresent /\ AllPositive
       /\ WholeLogs(result.estimated_readings_to_resistance))
    => LET e == result.estimated_readings_to_resistance
       IN  /\ e.log2_of = Frac(Val(susceptible_breakpoint), Last)
           /\ e.per_log2_of = result.velocity
           /\ SameNumber(EstimateValue(e), QuotientOf(e))

\* C11, amended: detect_mic_creep raises nothing; the estimate is absent
\* exactly when the trend is not increasing (insufficient data included), or
\* the velocity is at most 1.0, or no susceptible breakpoint is supplied, or
\* the current MIC is at or above it; when present (positive readings) it is
\* log2(susceptible_breakpoint / current_mic) / log2(velocity) rounded to 1
\* decimal, a non-negative number.
C11_EstimateAbsentOrRounded ==
    (pc = "creep")
    => /\ "raised" \notin DOMAIN result
       /\ ~EstimatePresent <=> \/ result.trend # "increasing"
                               \/ ~FracGT(result.velocity, 1, 1)
                               \/ susceptible_breakpoint = None
                               \/ Last >= Val(susceptible_breakpoint)
       /\ (EstimatePresent /\ AllPositive)
          => LET e == result.estimated_readings_to_resistance
             IN  /\ e = LogQuotient(Frac(Val(susceptible_breakpoint), Last),
                                    result.velocity, Some(1))
                 /\ FracGE(e.log2_of, 1)
                 /\ FracGT(e.per_log2_of, 1, 1)
                 /\ WholeLogs(e)
                    => /\ EstimateValue(e) = Round(QuotientOf(e), 10)
                       /\ EstimateValue(e).num >= 0

\* a rising series below the susceptible breakpoint, with the estimate
C11_Witness ==
    /\ pc = "creep"
    /\ AllPositive
    /\ EstimatePresent
    /\ result.trend = "increasing"
    /\ Last < Val(susceptible_breakpoint)
    /\ WholeLogs(result.estimated_readings_to_resistance)

\* C12, as stated, last part: for n >= 2 positive readings the velocity is
\* above 1 exactly when the current MIC is above the baseline.
C12_VelocityAboveOneIffRising ==
    (pc = "utils" /\ N >= 2 /\ AllPositive)
    => (FracGT(result.velocity, 1, 1) <=> Last > First)

\* C12, amended: for n >= 2 positive readings the velocity is the (n-1)-th
\* root of current/baseline rounded to 3 decimals (it lies within half a
\* thousandth of the root); for n = 2 it is current/baseline rounded to 3
\* decimals; velocity > 1 only if current > baseline, velocity < 1 only if
\* current < baseline, and current = baseline gives exactly 1.
C12_VelocityIsRoundedRoot ==
    (pc = "utils" /\ N >= 2 /\ AllPositive)
    => LET v == result.velocity
           k == N - 1
       IN  /\ v.den = 1000
           /\ HalfCmp(v.num, k, Last, First, 1000) <= 0
           /\ HalfCmp(v.num + 1, k, Last, First, 1000) >= 0
           /\ N = 2 => v = Round(Frac(Last, First), 1000)
           /\ FracGT(v, 1, 1) => Last > First
           /\ FracLT(v, 1, 1) => Last < First
           /\ Last = First => v = Frac(1000, 1000)

\* three readings, the last one unit above the first at a high
\* concentration: the root rounds to a velocity of exactly 1
C12_Witness ==
    /\ pc = "utils"
    /\ N = 3
    /\ AllPositive
    /\ Last > First
    /\ result.velocity = Frac(1000, 1000)

----------------------------------------------------------------------------
(* Creatinine clearance *)

Args == Val(crcl_call)
ValidArgs == Args.age_years > 0 /\ Args.weight_kg > 0 /\ Args.serum_creatinine_mg_dl > 0
CrclReturned == pc = "crcl" /\ "returned" \in DOMAIN result
HeightUsed == Args.use_ibw /\ IsSome(Args.height_cm) /\ Val(Args.height_cm) # 0
Abs(x) == IF x < 0 THEN -x ELSE x

\* C13: calculate_crcl raises ValueError and returns nothing whenever the
\* age, the weight or the serum creatinine is <= 0; with all three strictly
\* positive it returns a number and raises nothing.
C13_InvalidInputRaises ==
    (pc = "crcl")
    => /\ ~ValidArgs => /\ "raised" \in DOMAIN result
                        /\ result.raised = "ValueError"
                        /\ "returned" \notin DOMAIN result
                        /\ weight = None
       /\ ValidArgs => /\ "returned" \in DOMAIN result
                       /\ "raised" \notin DOMAIN result
                       /\ result.returned.den = 10

\* an age of 0 with a positive weight and serum creatinine: ValueError
C13_Witness ==
    /\ pc = "crcl"
    /\ Args.age_years = 0
    /\ Args.weight_kg > 0
    /\ Args.serum_creatinine_mg_dl > 0
    /\ "raised" \in DOMAIN result

\* the Cockcroft-Gault value for the selected weight w (tenths of a kg) and a
\* sex factor in hundredths: ((140 - age) * w) / (72 * scr) * factor
CockcroftGault(a, w, factor) ==
    Frac((140 - a.age_years) * w * factor, 72 * a.serum_creatinine_mg_dl * 100)

\* the male result for the arguments of the call
MaleResult == CrclOf([Args EXCEPT !.sex = "male"]).returned

\* whether 100 * f and 85 * m differ by at most rounding (0.05 + 0.85 * 0.05),
\* f and m in tenths
ScaledUpToRounding(f, m) == Abs(100 * f.num - 85 * m.num) <= 92

\* C14, as stated, last part: with all other inputs identical the female
\* result is 0.85 times the male result up to rounding.
C14_FemaleIsScaledMale ==
    (CrclReturned /\ Args.sex = "female")
    => ScaledUpToRounding(result.returned, MaleResult)

\* C14, amended: for valid inputs the result is
\* ((140 - age) * weight) / (72 * scr), times 0.85 for a female, rounded to 1
\* decimal, weight being the selected weight; the female result is 0.85
\* times the male result up to rounding when the actual weight is used
\* (no ideal weight requested, or no height).
C14_CockcroftGault ==
    CrclReturned
    => /\ weight # None
       /\ Val(weight).den = 10
       /\ result.returned =
            Round(CockcroftGault(Args, Val(weight).num,
                                 IF Args.sex = "female" THEN 85 ELSE 100), 10)
       /\ (Args.sex = "female" /\ ~HeightUsed)
          => ScaledUpToRounding(result.returned, MaleResult)

\* a female patient, actual weight used: 0.85 times the male result
C14_Witness ==
    /\ CrclReturned
    /\ Args.sex = "female"
    /\ ~HeightUsed
    /\ result.returned.num > 0
    /\ result.returned.num < MaleResult.num

\* the Devine ideal body weight in 1/1270 kg:
\* 1270 * (base + 2.3 * max(0, height_cm / 2.54 - 60))
Devine1270(a) ==
    127 * (IF a.sex = "male" THEN 500 ELSE 455)
       + 23 * Max(0, 50 * Val(a.height_cm) - 7620)

\* the weight of the claim in 1/6350 kg, from the unrounded ideal weight
StatedWeight6350(a) ==
    IF 1270 * a.weight_kg > 13 * Devine1270(a)
    THEN 3 * Devine1270(a) + 254 * a.weight_kg
    ELSE 5 * Devine1270(a)

\* C15, as stated: with an ideal weight requested and a height given, the
\* weight used is the Devine ideal weight, or the adjusted weight
\* IBW + 0.4 * (actual - IBW) when the actual weight exceeds 1.3 * IBW
\* (compared here up to 0.1 kg).
C15_WeightFromExactIbw ==
    (CrclReturned /\ HeightUsed)
    => Abs(635 * Val(weight).num - StatedWeight6350(Args)) <= 635

IbwTenths == 400 .. 1500

\* C15, amended: the weight used is the actual weight when no ideal weight
\* is requested or the height is missing or 0; otherwise, with IBW the
\* Devine weight rounded to 0.1 kg, it is IBW when the actual weight is at
\* most 1.3 * IBW, and IBW + 0.4 * (actual - IBW) rounded to 0.1 kg when it
\* exceeds 1.3 * IBW.
C15_WeightFromRoundedIbw ==
    CrclReturned
    => /\ ~HeightUsed => Val(weight) = Frac(Args.weight_kg, 10)
       /\ HeightUsed
          => \E ibw \in IbwTenths :
               /\ 2 * Abs(127 * ibw - Devine1270(Args)) < 127
               /\ 10 * Args.weight_kg <= 13 * ibw => Val(weight) = Frac(ibw, 10)
               /\ 10 * Args.weight_kg > 13 * ibw
                  => /\ Val(weight).den = 10
                     /\ Abs(10 * Val(weight).num - (6 * ibw + 4 * Args.weight_kg)) < 5

\* a man of 150 cm (ideal weight 50.0 kg) weighing exactly 65.0 kg: the
\* ideal weight is used
C15_Witness ==
    /\ CrclReturned
    /\ HeightUsed
    /\ Args.sex = "male"
    /\ Val(Args.height_cm) = 150
    /\ Args.weight_kg = 650
    /\ Val(weight) = Frac(500, 10)

\* C16: with an ideal weight requested and no height, calculate_crcl raises
\* nothing for valid inputs and uses the actual weight: its result is the
\* one of the same call without the ideal weight requested.
C16_NoHeightSkipsAdjustment ==
    (pc = "crcl" /\ Args.use_ibw /\ Args.height_cm = None)
    => /\ result = CrclOf([Args EXCEPT !.use_ibw = FALSE])
       /\ ValidArgs => /\ "raised" \notin DOMAIN result
                       /\ Val(weight) = Frac(Args.weight_kg, 10)

\* an ideal weight requested for a heavy patient without a height
C16_Witness ==
    /\ CrclReturned
    /\ Args.use_ibw
    /\ Args.height_cm = None
    /\ Args.weight_kg = 1200
    /\ Val(weight) = Frac(1200, 10)

\* the category of a clearance of n tenths of a mL/min, boundaries included below
CategoryTable(n) ==
    IF n >= 900 THEN "normal"
    ELSE IF n >= 600 THEN "mild_impairment"
    ELSE IF n >= 300 THEN "moderate_impairment"
    ELSE IF n >= 150 THEN "severe_impairment"
    ELSE "esrd"

\* C17: get_renal_dose_category maps every clearance, negative ones
\* included, to exactly one of the five categories with lower-inclusive
\* boundaries 90, 60, 30 and 15, and never raises.
C17_CategoryTable ==
    (pc = "category")
    => /\ DOMAIN result = {"category"}
       /\ Val(crcl).den = 10
       /\ result.category = CategoryTable(Val(crcl).num)

\* a clearance of exactly 90.0 is normal
C17_Witness ==
    /\ pc = "category"
    /\ Val(crcl) = Frac(900, 10)
    /\ result.category = "normal"

\* C18, as stated: for valid inputs the result is negative for an age above
\* 140, 0 for an age of 140 and positive for an age below 140.
C18_SignFollowsAge ==
    CrclReturned
    => /\ Args.age_years > 140 => result.returned.num < 0
       /\ Args.age_years = 140 => result.returned.num = 0
       /\ Args.age_years < 140 => result.returned.num > 0

\* the unrounded clearance is more than 0.05 mL/min away from 0
BeyondRounding ==
    LET raw == CockcroftGault(Args, Val(weight).num,
                              IF Args.sex = "female" THEN 85 ELSE 100)
    IN  20 * Abs(raw.num) > raw.den

\* C18, amended: no clamping: for valid inputs the result is <= 0 for an
\* age above 140 and negative once the unrounded value is beyond -0.05; it
\* is 0 for an age of 140; it is >= 0 for an age below 140 and positive once
\* the unrounded value is beyond 0.05. A negative result is classified esrd.
C18_SignUpToRounding ==
    /\ CrclReturned
       => /\ Args.age_years > 140 => /\ result.returned.num <= 0
                                     /\ BeyondRounding => result.returned.num < 0
          /\ Args.age_years = 140 => result.returned.num = 0
          /\ Args.age_years < 140 => /\ result.returned.num >= 0
                                     /\ BeyondRounding => result.returned.num > 0
    /\ (pc = "category" /\ crcl_call # None /\ Val(crcl).num < 0)
       => result.category = "esrd"

\* an age of 141 gave a negative clearance, classified esrd
C18_Witness ==
    /\ pc = "category"
    /\ crcl_call # None
    /\ Args.age_years = 141
    /\ Val(crcl).num < 0
    /\ result.category = "esrd"

----------------------------------------------------------------------------
(* Concurrent callers *)

Done(q) == q \in DOMAIN procs /\ procs[q].pc = "done"
JobOf(q) == Val(procs[q].job)
Returned(q) == Val(procs[q].ret)
ReturnsDict(q) == JobOf(q).kind \in {"creep", "trend"}

\* what the call returns when no other call runs
Alone(job) ==
    CASE job.kind = "creep" ->
           detect_mic_creep(job.organism, job.antibiotic, mic_values, job.s, job.r)
      [] job.kind = "trend" -> calculate_mic_trend(mic_values, job.s, job.r)
      [] job.kind = "crcl" -> CrclOf(job.args)
      [] job.kind = "category" -> get_renal_dose_category(job.crcl)

\* C19: two calls with the same arguments return the same result, whatever
\* other calls ran before or between their steps, and the readings list a
\* call was passed is unchanged when it has returned.
C19_SameArgumentsSameResult ==
    \A q \in DOMAIN procs :
        Done(q)
        => /\ \A o \in DOMAIN procs :
                 (Done(o) /\ JobOf(o) = JobOf(q)) => Returned(o) = Returned(q)
           /\ ReturnsDict(q) => mic_values = Val(procs[q].passed)

\* two calls of detect_mic_creep with the same arguments and a third one
\* for another organism have all returned
C19_Witness ==
    \E q, o, x \in DOMAIN procs :
        /\ q # o
        /\ Done(q) /\ Done(o) /\ Done(x)
        /\ JobOf(q).kind = "creep"
        /\ JobOf(o) = JobOf(q)
        /\ JobOf(x).kind = "creep"
        /\ JobOf(x) # JobOf(q)
        /\ Returned(q) = Returned(o)
        /\ procs[q].ref # procs[o].ref

\* C20: every call returns what it returns when run alone, whatever the
\* interleaving, and the dict it returned stays as returned while the other
\* calls run: no call writes a dict of another.
C20_SameResultAsAlone ==
    \A q \in DOMAIN procs :
        Done(q)
        => /\ Returned(q) = Alone(JobOf(q))
           /\ ReturnsDict(q) => heap[Val(procs[q].ref)] = Alone(JobOf(q))

\* a detect_mic_creep call has returned while another one, which got its
\* dict earlier, is still writing to it
C20_Witness ==
    \E q, o \in DOMAIN procs :
        /\ Done(q)
        /\ JobOf(q).kind = "creep"
        /\ procs[o].pc = "c_abx"
        /\ Val(procs[o].ref) < Val(procs[q].ref)
        /\ JobOf(o).organism # JobOf(q).organism
        /\ "estimated_readings_to_resistance" \in DOMAIN Returned(q)

----------------------------------------------------------------------------
(* The tool of the UI *)

\* the usable values of the tool: the non-zero MIC values in date order,
\* then the current MIC when one is passed and not 0
Usable ==
    LET dated == SelectSeq(Mics(SortByDate(mic_values)), Truthy)
    IN  IF IsSome(current_mic) /\ Val(current_mic) # 0
        THEN Append(dated, Val(current_mic))
        ELSE dated

----------------------------------------------------------------------------
(* The order of the risk levels *)

RiskRank(level) ==
    CASE level = "LOW" -> 1
      [] level = "MODERATE" -> 2
      [] level = "HIGH" -> 3
      [] level = "CRITICAL" -> 4

AssessCalls == {i \in DOMAIN calls : calls[i].fn = "_assess_mic_risk"}
InterpretCalls == {i \in DOMAIN calls : calls[i].fn = "interpret_mic_value"}
LevelOf(i) == calls[i].returned[1]

\* the call took the breakpoint path, with susceptible <= resistant
WithBreakpoints(a) ==
    /\ IsSome(a.s_breakpoint)
    /\ IsSome(a.r_breakpoint)
    /\ Val(a.s_breakpoint) <= Val(a.r_breakpoint)

\* the call took the ratio path
WithoutBreakpoints(a) == ~(IsSome(a.s_breakpoint) /\ IsSome(a.r_breakpoint))

\* f <= g for ratios, inf the largest
FracLE(f, g) ==
    IF IsInf(g) THEN TRUE
    ELSE IF IsInf(f) THEN FALSE
    ELSE CmpFrac(f.num, f.den, g.num, g.den) <= 0

SameBreakpoints(a, b) ==
    /\ a.s_breakpoint = b.s_breakpoint
    /\ a.r_breakpoint = b.r_breakpoint

\* C28: the risk level never falls when the current MIC grows (breakpoints
\* with susceptible <= resistant and the trend fixed), never falls when the
\* ratio grows (no breakpoints, trend fixed), and an increasing trend never
\* gives a lower level than a stable or decreasing one with the same numbers.
C28_RiskIsMonotone ==
    \A i \in AssessCalls, j \in AssessCalls :
        LET a == calls[i].args
            b == calls[j].args
        IN  /\ (/\ WithBreakpoints(a)
                /\ SameBreakpoints(a, b)
                /\ a.trend = b.trend
                /\ a.current <= b.current)
               => RiskRank(LevelOf(i)) <= RiskRank(LevelOf(j))
            /\ (/\ WithoutBreakpoints(a)
                /\ WithoutBreakpoints(b)
                /\ a.trend = b.trend
                /\ FracLE(a.fold_change, b.fold_change))
               => RiskRank(LevelOf(i)) <= RiskRank(LevelOf(j))
            /\ (/\ a.trend # "increasing"
                /\ b.trend = "increasing"
                /\ WithBreakpoints(a) \/ WithoutBreakpoints(a)
                /\ SameBreakpoints(a, b)
                /\ a.current = b.current
                /\ a.fold_change = b.fold_change)
               => RiskRank(LevelOf(i)) <= RiskRank(LevelOf(j))

\* a stable reading close to the breakpoint (MODERATE) and then a larger one
\* past the susceptible breakpoint (HIGH), the breakpoints and the trend the same
C28_Witness ==
    /\ pc = "second"
    /\ AssessCalls = {1, 2}
    /\ WithBreakpoints(calls[1].args)
    /\ SameBreakpoints(calls[1].args, calls[2].args)
    /\ calls[1].args.trend = "stable"
    /\ calls[2].args.trend = "stable"
    /\ calls[1].args.current < calls[2].args.current
    /\ LevelOf(1) = "MODERATE"
    /\ LevelOf(2) = "HIGH"

\* the breakpoints of the row, given to the risk assessment of the same value
SameValueAndBreakpoints(i, j) ==
    LET row == calls[i].args.results[1]
        a == calls[j].args
    IN  /\ a.current = calls[i].args.mic_value
        /\ a.s_breakpoint = row.mic_susceptible
        /\ a.r_breakpoint = row.mic_resistant

\* the row has both breakpoints, susceptible <= resistant
RowWithBreakpoints(i) ==
    /\ calls[i].args.results # <<>>
    /\ IsSome(calls[i].args.results[1].mic_susceptible)
    /\ IsSome(calls[i].args.results[1].mic_resistant)
    /\ Val(calls[i].args.results[1].mic_susceptible) <= Val(calls[i].args.results[1].mic_resistant)

\* C30: with both breakpoints and susceptible <= resistant, interpret_mic_value
\* returns SUSCEPTIBLE iff mic <= susceptible, RESISTANT iff mic > resistant and
\* INTERMEDIATE otherwise; the risk level of the same value with the same
\* breakpoints is CRITICAL when RESISTANT, HIGH when INTERMEDIATE and never
\* CRITICAL when SUSCEPTIBLE.
C30_InterpretationAgreesWithRisk ==
    \A i \in InterpretCalls :
        RowWithBreakpoints(i)
        => LET m == calls[i].args.mic_value
               s == Val(calls[i].args.results[1].mic_susceptible)
               r == Val(calls[i].args.results[1].mic_resistant)
               sir == calls[i].returned.interpretation
           IN  /\ sir = "SUSCEPTIBLE" <=> m <= s
               /\ sir = "RESISTANT" <=> m > r
               /\ sir = "INTERMEDIATE" <=> (m > s /\ m <= r)
               /\ \A j \in AssessCalls :
                      SameValueAndBreakpoints(i, j)
                      => /\ sir = "RESISTANT" => LevelOf(j) = "CRITICAL"
                         /\ sir = "INTERMEDIATE" => LevelOf(j) = "HIGH"
                         /\ sir = "SUSCEPTIBLE" => LevelOf(j) # "CRITICAL"

\* a value between the breakpoints: INTERMEDIATE, and HIGH for the same numbers
C30_Witness ==
    /\ pc = "second"
    /\ InterpretCalls = {1}
    /\ AssessCalls = {2}
    /\ RowWithBreakpoints(1)
    /\ SameValueAndBreakpoints(1, 2)
    /\ calls[1].returned.interpretation = "INTERMEDIATE"
    /\ LevelOf(2) = "HIGH"

----------------------------------------------------------------------------
(* The safety report *)

Screened == pc = "screened"
ScreenArgs == calls[1].args
Report == calls[1].returned

Has(seq, level) == \E i \in DOMAIN seq : seq[i].level = level
Found(severity) ==
    \E i \in DOMAIN Report.interactions : Report.interactions[i].severity = severity

\* the name of an allergy of the patient occurs in the antibiotic name
DirectAllergy ==
    \E i \in DOMAIN ScreenArgs.patient_allergies :
        Occurs(lower(ScreenArgs.patient_allergies[i]), lower(ScreenArgs.antibiotic))

\* an allergy names an allergen of the table and a related drug of it occurs
\* in the antibiotic name
CrossReactivity ==
    \E i \in DOMAIN ScreenArgs.patient_allergies, k \in DOMAIN cross_reactivity :
        /\ Occurs(cross_reactivity[k].allergen, lower(ScreenArgs.patient_allergies[i]))
        /\ \E d \in DOMAIN cross_reactivity[k].related :
               Occurs(cross_reactivity[k].related[d], lower(ScreenArgs.antibiotic))

UnsafeExactly == Report.safe_to_use <=> ~(Found("major") \/ DirectAllergy)
SummaryExactly ==
    /\ Report.summary \in {NoConcerns, ConcernsIdentified}
    /\ Report.summary = ConcernsIdentified <=> ~Report.safe_to_use

\* C29 as stated: safe_to_use is False exactly for a major interaction or a
\* direct allergy match; a moderate or minor interaction or a cross-reactivity
\* match adds a WARNING alert and leaves safe_to_use True; the summary names
\* concerns exactly when safe_to_use is False.
C29_MinorAddsWarning ==
    Screened
    => /\ UnsafeExactly
       /\ (Found("moderate") \/ Found("minor") \/ CrossReactivity)
          => /\ Has(Report.alerts, "WARNING")
             /\ ~(Found("major") \/ DirectAllergy) => Report.safe_to_use
       /\ SummaryExactly

\* C29 amended: as stated for safe_to_use and the summary; the alerts hold a
\* WARNING exactly when a moderate interaction or a cross-reactivity match was
\* found and a CRITICAL exactly when a major interaction was found, so a minor
\* interaction adds no alert; it is listed under interactions only.
C29_MinorAddsNothing ==
    Screened
    => /\ UnsafeExactly
       /\ Has(Report.alerts, "WARNING") <=> (Found("moderate") \/ CrossReactivity)
       /\ Has(Report.alerts, "CRITICAL") <=> Found("major")
       /\ (Found("moderate") \/ CrossReactivity) /\ ~(Found("major") \/ DirectAllergy)
          => Report.safe_to_use
       /\ Has(Report.allergy_warnings, "CRITICAL") <=> DirectAllergy
       /\ SummaryExactly

\* a minor interaction alone: safe to use, listed, and no alert
C29_Witness ==
    /\ Screened
    /\ Found("minor")
    /\ ~Found("major")
    /\ ~Found("moderate")
    /\ ScreenArgs.patient_allergies = <<Penicillin>>
    /\ ScreenArgs.antibiotic = Ciprofloxacin
    /\ Report.safe_to_use
    /\ Report.alerts = <<>>

----------------------------------------------------------------------------
(* The GPU attempt and the CPU retry *)

InferenceCalled == calls # <<>> /\ calls[1].fn \in InferenceFunctions
GpuAttempts == {i \in DOMAIN trace : trace[i].called = GpuFunction(calls[1].fn)}
CpuAttempts == {i \in DOMAIN trace : trace[i].called = CoreFunction(calls[1].fn)}
Failed(i) == "raised" \in DOMAIN trace[i].outcome

\* a ZeroGPU or CUDA allocation failure, as the comments of loader.py describe it
AllocationFailure(e) ==
    \/ Occurs(s_GPU, e.cls_name)
    \/ Occurs(s_CUDA, e.msg)
    \/ Occurs(s_RuntimeError, e.msg)
    \/ Occurs(s_spaces_zero, e.frames) \/ Occurs(s_spaces_zero, e.msg)
    \/ Occurs(s_device_api_zero, e.frames) \/ Occurs(s_device_api_zero, e.msg)

\* C25: the GPU attempt comes first; the CPU attempt is made at most once and
\* only after a GPU failure that is an allocation failure; any other GPU
\* failure is raised to the caller without a CPU attempt; a failure of the CPU
\* attempt is raised to the caller; a successful GPU attempt is returned and
\* never followed by a CPU attempt.
C25_CpuOnlyAfterGpuAllocationFailure ==
    InferenceCalled
    => /\ trace # <<>> => GpuAttempts = {1}
       /\ CpuAttempts \subseteq {2}
       /\ 2 \in CpuAttempts => Failed(1) /\ AllocationFailure(trace[1].outcome.raised)
       /\ pc = "done"
          => /\ ~Failed(1) => trace = <<trace[1]>> /\ result = trace[1].outcome
             /\ (Failed(1) /\ ~AllocationFailure(trace[1].outcome.raised))
                => trace = <<trace[1]>> /\ result = trace[1].outcome
             /\ (Failed(1) /\ AllocationFailure(trace[1].outcome.raised))
                => Len(trace) = 2 /\ result = trace[2].outcome

\* the GPU attempt fails for lack of a CUDA device and the CPU attempt fails too
C25_Witness ==
    /\ InferenceCalled
    /\ pc = "done"
    /\ Len(trace) = 2
    /\ trace[1].outcome = [raised |-> Exc(s_RuntimeError, s_NoCudaGpus, f_torch)]
    /\ result = [raised |-> Exc(s_ValueError, s_bad_prompt, f_loader)]

----------------------------------------------------------------------------
(* Built once, the same for every caller *)

SingletonNames == GlobalNames \cup ModelNames
BuiltFor(name) == {i \in DOMAIN heap : heap[i].built_for = name}
Received(q) == Frame(q).pc = "done"
GetterOf(q) == Val(Frame(q).getter)

\* C26: each singleton is built at most once, also when several callers are
\* in the getter at the same time, and every caller of a getter receives the
\* same instance.
C26_BuiltOnceAndShared ==
    /\ \A name \in SingletonNames : Cardinality(BuiltFor(name)) <= 1
    /\ \A p \in Procs, q \in Procs :
           (Received(p) /\ Received(q) /\ GetterOf(p) = GetterOf(q))
           => Frame(p).ret = Frame(q).ret

----------------------------------------------------------------------------
(* The runs of the graph *)

NodeSequence == [i \in DOMAIN trace |-> trace[i].node]
PipelineRunning == pc \in Nodes \cup {"END", "raised"}
Finished == pc \in {"END", "raised"}
Position(node) == CHOOSE i \in DOMAIN trace : trace[i].node = node
HasRun(node) == \E i \in DOMAIN trace : trace[i].node = node

\* C21: with a non-empty labs_raw_text the Vision Specialist runs after the
\* Intake Historian and before the Clinical Pharmacologist, whatever the
\* intake model answers.
C21_LabsReachVision ==
    (PipelineRunning /\ HasLabs(state) /\ (pc = "clinical_pharmacologist" \/ Finished))
    => /\ HasRun("vision_specialist")
       /\ Position("intake_historian") < Position("vision_specialist")
       /\ HasRun("clinical_pharmacologist")
          => Position("vision_specialist") < Position("clinical_pharmacologist")

ThreeSequences ==
    {<<"intake_historian", "clinical_pharmacologist">>,
     <<"intake_historian", "vision_specialist", "clinical_pharmacologist">>,
     <<"intake_historian", "vision_specialist", "trend_analyst", "clinical_pharmacologist">>}

IsPrefix(s, t) == Len(s) <= Len(t) /\ SubSeq(t, 1, Len(s)) = s

\* the nodes run so far begin one of the three sequences, and a run that is
\* over has run one of them whole; the Trend Analyst has run only with
\* route_to_trend_analyst set and at least one MIC datum
SequenceAllowed ==
    PipelineRunning
    => /\ \E t \in ThreeSequences : IsPrefix(NodeSequence, t)
       /\ Finished => NodeSequence \in ThreeSequences
       /\ HasRun("trend_analyst")
          => /\ Position("vision_specialist") < Position("trend_analyst")
             /\ Get(state, "route_to_trend_analyst", FALSE)
             /\ Get(state, "mic_data", <<>>) # <<>>

\* C23: every run of the graph ends, and its node sequence is one of the
\* three: each node at most once, intake_historian first,
\* clinical_pharmacologist once and last, trend_analyst only after
\* vision_specialist set route_to_trend_analyst.
C23_EndsWithOneOfThreeSequences ==
    /\ [](SequenceAllowed)
    /\ (pc = "intake_historian") ~> (pc = "END" /\ NodeSequence \in ThreeSequences)

\* age, weight and serum creatinine are given and one of them is not positive
NonPositive(v) == v # None /\ Val(v) <= 0
NonPositiveInput ==
    /\ state.age_years # None
    /\ state.weight_kg # None
    /\ state.serum_creatinine_mg_dl # None
    /\ \/ NonPositive(state.age_years)
       \/ NonPositive(state.weight_kg)
       \/ NonPositive(state.serum_creatinine_mg_dl)

ErrorsFrom(what) ==
    {i \in DOMAIN Get(state, "errors", <<>>) : state.errors[i].what = what}

\* the value the calculator would give for the patient of the run
FromCalculator(v) ==
    /\ state.age_years # None
    /\ LET c == calculate_crcl(Val(state.age_years), Val(state.weight_kg),
                               Val(state.serum_creatinine_mg_dl), Val(state.sex),
                               TRUE, None)
       IN  "returned" \in DOMAIN c /\ v = Some(c.returned)

\* C24: with a non-positive age, weight or serum creatinine the Intake
\* Historian raises nothing, leaves a warning in errors, does not set
\* creatinine_clearance_ml_min from the calculator, and produces its intake
\* notes and its routing fields.
C24_NonPositiveInputIsWarned ==
    (PipelineRunning /\ HasRun("intake_historian") /\ NonPositiveInput)
    => /\ ErrorsFrom("CrCl calculation error") # {}
       /\ ~FromCalculator(Get(state, "creatinine_clearance_ml_min", None))
       /\ "intake_notes" \in DOMAIN state
       /\ "stage" \in DOMAIN state
       /\ "route_to_vision" \in DOMAIN state

InferenceFailed(i) ==
    \E k \in DOMAIN trace[i].inference : "raised" \in DOMAIN trace[i].inference[k]

NotesField(node) ==
    CASE node = "intake_historian" -> "intake_notes"
      [] node = "vision_specialist" -> "vision_notes"
      [] node = "trend_analyst" -> "trend_notes"
      [] node = "clinical_pharmacologist" -> "pharmacology_notes"

ErrorOf(node) ==
    CASE node = "intake_historian" -> "Intake Historian error"
      [] node = "vision_specialist" -> "Vision Specialist error"
      [] node = "trend_analyst" -> "Trend Analyst error"
      [] node = "clinical_pharmacologist" -> "Clinical Pharmacologist error"

\* C27: an agent whose inference failed raises nothing, returns the state
\* with its notes field written and an entry of its failure in errors, and
\* the run goes on to the Clinical Pharmacologist and END; after a failure in
\* the Vision Specialist route_to_trend_analyst is False.
C27_InferenceFailureIsContained ==
    \A i \in DOMAIN trace :
        (PipelineRunning /\ InferenceFailed(i))
        => /\ pc # "raised"
           /\ NotesField(trace[i].node) \in DOMAIN state
           /\ ErrorsFrom(ErrorOf(trace[i].node)) # {}
           /\ trace[i].node = "vision_specialist" => state.route_to_trend_analyst = FALSE
           /\ pc \in (Nodes \ {"intake_historian"}) \cup {"END"}

====
